---- MODULE Spec2Model ----
(***************************************************************************)
(* A model of pycheops/dataset.py: the keyword-to-parameter conversion,    *)
(* the geometric prior, the two log-posterior functions, the least-squares *)
(* residual vector, and the emcee_sampler driver.                          *)
(*                                                                         *)
(* Numbers.  Floating-point quantities are fixed-point integers, each in   *)
(* the unit written next to it (D in 1e-6, W in 1e-4, b and k in 1e-3,     *)
(* aR in 1e-2).  A log-probability is kept only as its class: "finite",    *)
(* "neginf", "posinf" or "nan"; the classes add as IEEE doubles do.        *)
(***************************************************************************)
EXTENDS Integers, Sequences, FiniteSets, TLC

VARIABLES
    \* ---- _log_prior called on its own
    pD, pW, pb, pRes,
    \* ---- _kw_to_Parameter called on its own
    kwarg, kwRes,
    \* ---- a log-posterior function called on a vector and on the vector
    \* with one component moved out of its bounds
    postLc, postParams, postGp, postPos, postBase, postAt, postPert,
    \* ---- the Dataset object and the exception its last call raised
    dataset, raised,
    \* ---- the call of emcee_sampler in progress: where it is, its
    \* arguments, its locals (params, vn, vv, vs, gp), the list pos, the
    \* rejected draws of the walker being placed, the EnsembleSampler
    emPc, emArgs, emWork, emPos, emDraws, emSampler,
    \* ---- the history of a Dataset object: the operation called last, its
    \* keyword arguments, the object as it was before that call, and the
    \* kind and the results of the fits completed last
    called, callKw, before, done,
    \* ---- one pass of the sampler over the walkers with the GP variant:
    \* the kernel parameters of the shared GP object, the kernel parameters
    \* of the proposal of each walker, how far the evaluation of each has
    \* come, and the kernel parameters its likelihood was computed with
    mapGp, mapPos, mapPc, mapUsed,
    \* ---- the table of a light-curve file and self.lc, each array by the
    \* rows of the table its entries come from
    srcTable, tabLc,
    \* ---- the archive of a file_key as the server gives it, the files of
    \* the cache directory, and the Dataset object constructed last
    archive, cacheDisk, cacheSelf

priorVars == <<pD, pW, pb, pRes>>
kwVars == <<kwarg, kwRes>>
postVars == <<postLc, postParams, postGp, postPos, postBase, postAt, postPert>>
dataVars == <<dataset, raised>>
emVars == <<emPc, emArgs, emWork, emPos, emDraws, emSampler>>
lifeVars == <<called, callKw, before, done>>
mapVars == <<mapGp, mapPos, mapPc, mapUsed>>
tabVars == <<srcTable, tabLc>>
cacheVars == <<archive, cacheDisk, cacheSelf>>
vars == <<pD, pW, pb, pRes, kwarg, kwRes,
          postLc, postParams, postGp, postPos, postBase, postAt, postPert,
          dataset, raised, emPc, emArgs, emWork, emPos, emDraws, emSampler,
          called, callKw, before, done,
          mapGp, mapPos, mapPc, mapUsed, srcTable, tabLc,
          archive, cacheDisk, cacheSelf>>

(***************************************************************************)
(* Extended reals                                                          *)
(***************************************************************************)
\* np.inf as a parameter bound: larger than every value the model draws.
Inf == 10^9

Classes == {"finite", "neginf", "posinf", "nan"}

\* -x on classes.
NegClass(c) ==
    CASE c = "neginf" -> "posinf"
      [] c = "posinf" -> "neginf"
      [] OTHER -> c

\* x + y on classes: nan is absorbing, inf + (-inf) is nan.
AddClass(a, c) ==
    IF a = "nan" \/ c = "nan" THEN "nan"
    ELSE IF {a, c} = {"neginf", "posinf"} THEN "nan"
    ELSE IF "posinf" \in {a, c} THEN "posinf"
    ELSE IF "neginf" \in {a, c} THEN "neginf"
    ELSE "finite"

\* np.log(x) for a real x given by its sign: only the class of the result.
LogClass(x) == IF x > 0 THEN "finite" ELSE IF x = 0 THEN "neginf" ELSE "nan"

\* np.isfinite on a class.
IsFinite(c) == c = "finite"

(***************************************************************************)
(* Integer square root: floor(sqrt(n)), by bisection.                      *)
(***************************************************************************)
RECURSIVE SqrtBetween(_, _, _)
SqrtBetween(n, lo, hi) ==
    IF lo >= hi THEN lo
    ELSE LET mid == (lo + hi + 1) \div 2
         IN IF mid * mid <= n THEN SqrtBetween(n, mid, hi)
            ELSE SqrtBetween(n, lo, mid - 1)

\* np.sqrt on a fixed-point number (floor); 46340^2 is the largest square
\* below 2^31.
ISqrt(n) == SqrtBetween(n, 0, 46340)

(***************************************************************************)
(* _log_prior(D, W, b), dataset.py:108-115.                                *)
(* D is in units of 1e-6, W in 1e-4, b in 1e-3.                            *)
(***************************************************************************)
\* 2e-6 and 0.2 in units of 1e-6 (line 109).
DLow == 2
DHigh == 200000
\* 1 in units of 1e-3 (line 110).
bHigh == 1000
\* 1e-4 in units of 1e-4 (line 111).
WLow == 1
\* 2 in units of 1e-2 (line 114).
aRLow == 200
\* np.pi in units of 1e-3 (line 113).
Pi3 == 3142

\* k = np.sqrt(D), in units of 1e-3.
kOf(D) == ISqrt(D)

\* (1+k)**2 - b**2, in units of 1e-6.
ChordSq(D, b) == (1000 + kOf(D)) * (1000 + kOf(D)) - b * b

\* sqrt(chord)/(pi*W) in units of 1e-2, for chord = (1+k)**2 - b**2 in
\* units of 1e-6 and W > 0 (the square root is taken in units of 1e-4,
\* like W).
aRFrom(chord, W) == (ISqrt(100 * chord) * 100000) \div (Pi3 * W)

\* aR = np.sqrt((1+k)**2 - b**2)/(np.pi*W), in units of 1e-2.
aROf(D, W, b) == aRFrom(ChordSq(D, b), W)

\* The mutant of _log_prior that rejects the end points of the D interval.
log_prior_open(D, W, b) ==
    IF (D <= DLow) \/ (D >= DHigh) THEN "neginf"
    ELSE IF (b < 0) \/ (b > bHigh) THEN "neginf"
    ELSE IF W < WLow THEN "neginf"
    ELSE IF aROf(D, W, b) < aRLow THEN "neginf"
    ELSE AddClass(AddClass(NegClass(LogClass(2 * kOf(D) * W)),
                           NegClass(LogClass(kOf(D)))),
                  NegClass(LogClass(aROf(D, W, b))))

\* The class of the value _log_prior returns.
_log_prior(D, W, b) ==
    IF (D < DLow) \/ (D > DHigh) THEN "neginf"
    ELSE IF (b < 0) \/ (b > bHigh) THEN "neginf"
    ELSE IF W < WLow THEN "neginf"
    ELSE IF aROf(D, W, b) < aRLow THEN "neginf"
    ELSE AddClass(AddClass(NegClass(LogClass(2 * kOf(D) * W)),
                           NegClass(LogClass(kOf(D)))),
                  NegClass(LogClass(aROf(D, W, b))))

\* The inputs _log_prior is tried on: both sides of every threshold.
PriorDs == {0, 1, 2, 3, 10000, 199999, 200000, 200001, 300000}
PriorWs == {0, 1, 2, 1000, 1684, 1690, 5000}
Priorbs == {-1, 0, 300, 1000, 1001}

PriorIdle == pD = 0 /\ pW = 0 /\ pb = 0 /\ pRes = "unset"

PriorInit ==
    /\ pD \in PriorDs
    /\ pW \in PriorWs
    /\ pb \in Priorbs
    /\ pRes = "unset"

\* One call of _log_prior on the chosen input.
LogPriorCall ==
    /\ pRes = "unset"
    /\ pRes' = _log_prior(pD, pW, pb)
    /\ UNCHANGED <<pD, pW, pb>>

(***************************************************************************)
(* lmfit.Parameter and uncertainties.UFloat, as the code uses them.        *)
(***************************************************************************)
\* user_data of a parameter that carries no Gaussian prior (None).
NoPrior == [isU |-> FALSE, n |-> 0, s |-> 0]

\* ufloat(n, s).
UFloat(n, s) == [isU |-> TRUE, n |-> n, s |-> s]

\* stderr of a parameter: None, a finite number, or a non-finite number.
NoStderr == [kind |-> "None", v |-> 0]

\* lmfit's Parameter(name, value, vary, min, max, expr, user_data): the
\* value is held within [min, max]; nan says that the value is NaN (value
\* is then of no meaning); a parameter with an expression does not vary.
Parameter(name, value, vary, min, max, expr, user_data) ==
    [name |-> name,
     value |-> IF value < min THEN min ELSE IF value > max THEN max ELSE value,
     nan |-> FALSE,
     vary |-> (vary /\ expr = ""), min |-> min, max |-> max, expr |-> expr,
     user_data |-> user_data, stderr |-> NoStderr]

\* The place of a parameter that was never made.
NoParameter == Parameter("", 0, FALSE, -Inf, Inf, "", NoPrior)

(***************************************************************************)
(* Sorting, min, max and np.median of a tuple of numbers.                  *)
(***************************************************************************)
RECURSIVE Insert(_, _)
Insert(x, s) ==
    IF s = << >> THEN <<x>>
    ELSE IF x <= Head(s) THEN <<x>> \o s
    ELSE <<Head(s)>> \o Insert(x, Tail(s))

RECURSIVE Sorted(_)
Sorted(s) == IF s = << >> THEN << >> ELSE Insert(Head(s), Sorted(Tail(s)))

\* min(kwarg) and max(kwarg) of a non-empty tuple.
MinOf(s) == Sorted(s)[1]
MaxOf(s) == Sorted(s)[Len(s)]

\* np.median of a non-empty tuple: the middle element, or the mean of the two
\* middle elements.  The tuples tried hold even numbers only, so the mean of
\* two of them is a whole number of units.
Median(s) ==
    LET t == Sorted(s)
        n == Len(t)
    IN IF n % 2 = 1 THEN t[(n + 1) \div 2]
       ELSE (t[n \div 2] + t[n \div 2 + 1]) \div 2

(***************************************************************************)
(* _kw_to_Parameter(name, kwarg), dataset.py:76-89.                        *)
(* kwarg is [type, n, s, elems, par]: its Python type, the number of a     *)
(* float, int or bool (n), the ufloat's n and s, the elements of a tuple   *)
(* or list, the Parameter when it is one.                                  *)
(***************************************************************************)
KwValue(type, n, s, elems, par) ==
    [type |-> type, n |-> n, s |-> s, elems |-> elems, par |-> par]

\* isinstance(kwarg, int): bool is a subclass of int.
IsInstanceInt(kw) == kw.type \in {"int", "bool"}

Returned(par) == [st |-> "returned", err |-> "", par |-> par]
Raised(err) == [st |-> "raised", err |-> err, par |-> NoParameter]
Pending == [st |-> "pending", err |-> "", par |-> NoParameter]

\* The tuple branch, lines 81-83.  np.median(()) is nan and min(()) raises.
\* (What lmfit makes of min == max depends on its version; the properties
\* below are stated for tuples with min < max.)
KwTuple(name, kw) ==
    IF Len(kw.elems) = 0 THEN Raised("ValueError: min() arg is an empty sequence")
    ELSE Returned(Parameter(name, Median(kw.elems), TRUE,
                            MinOf(kw.elems), MaxOf(kw.elems), "", NoPrior))

\* Mutant: the tuple's first element as the initial value.
kw_to_Parameter_first(name, kw) ==
    IF kw.type = "float"
    THEN Returned(Parameter(name, kw.n, FALSE, -Inf, Inf, "", NoPrior))
    ELSE IF IsInstanceInt(kw)
    THEN Returned(Parameter(name, kw.n, FALSE, -Inf, Inf, "", NoPrior))
    ELSE IF kw.type = "tuple" /\ Len(kw.elems) > 0
    THEN Returned(Parameter(name, kw.elems[1], TRUE,
                            MinOf(kw.elems), MaxOf(kw.elems), "", NoPrior))
    ELSE IF kw.type = "UFloat"
    THEN Returned(Parameter(name, kw.n, TRUE, -Inf, Inf, "", UFloat(kw.n, kw.s)))
    ELSE IF kw.type = "Parameter" THEN Returned(kw.par)
    ELSE Raised("ValueError: Unrecognised type for keyword argument")

\* Mutant: bounds taken by position, kwarg[0] and kwarg[-1].
kw_to_Parameter_positional(name, kw) ==
    IF kw.type = "float"
    THEN Returned(Parameter(name, kw.n, FALSE, -Inf, Inf, "", NoPrior))
    ELSE IF IsInstanceInt(kw)
    THEN Returned(Parameter(name, kw.n, FALSE, -Inf, Inf, "", NoPrior))
    ELSE IF kw.type = "tuple" /\ Len(kw.elems) > 0
    THEN Returned(Parameter(name, Median(kw.elems), TRUE,
                            kw.elems[1], kw.elems[Len(kw.elems)], "", NoPrior))
    ELSE IF kw.type = "UFloat"
    THEN Returned(Parameter(name, kw.n, TRUE, -Inf, Inf, "", UFloat(kw.n, kw.s)))
    ELSE IF kw.type = "Parameter" THEN Returned(kw.par)
    ELSE Raised("ValueError: Unrecognised type for keyword argument")

\* Mutant: the final raise is missing, the function falls off its end and
\* the caller stores what it got.
kw_to_Parameter_noraise(name, kw) ==
    IF kw.type = "float"
    THEN Returned(Parameter(name, kw.n, FALSE, -Inf, Inf, "", NoPrior))
    ELSE IF IsInstanceInt(kw)
    THEN Returned(Parameter(name, kw.n, FALSE, -Inf, Inf, "", NoPrior))
    ELSE IF kw.type = "tuple" THEN KwTuple(name, kw)
    ELSE IF kw.type = "UFloat"
    THEN Returned(Parameter(name, kw.n, TRUE, -Inf, Inf, "", UFloat(kw.n, kw.s)))
    ELSE IF kw.type = "Parameter" THEN Returned(kw.par)
    ELSE Returned(NoParameter)

_kw_to_Parameter(name, kw) ==
    IF kw.type = "float"
    THEN Returned(Parameter(name, kw.n, FALSE, -Inf, Inf, "", NoPrior))
    ELSE IF IsInstanceInt(kw)
    THEN \* float(kwarg): True is 1.0, False is 0.0
         Returned(Parameter(name, kw.n, FALSE, -Inf, Inf, "", NoPrior))
    ELSE IF kw.type = "tuple" THEN KwTuple(name, kw)
    ELSE IF kw.type = "UFloat"
    THEN Returned(Parameter(name, kw.n, TRUE, -Inf, Inf, "", UFloat(kw.n, kw.s)))
    ELSE IF kw.type = "Parameter" THEN Returned(kw.par)
    ELSE Raised("ValueError: Unrecognised type for keyword argument")

\* The numbers keyword arguments are made of: even, so that a midpoint is
\* a whole number of units.
KwHalfRange == 2
KwNumbers == {2 * i : i \in (0 - KwHalfRange)..KwHalfRange}
MaxTupleLen == 4

RECURSIVE SeqsUpTo(_, _)
\* All sequences over S of length at most n.
SeqsUpTo(S, n) ==
    IF n = 0 THEN {<< >>}
    ELSE LET shorter == SeqsUpTo(S, n - 1)
         IN shorter \cup {Append(t, x) : t \in {u \in shorter : Len(u) = n - 1}, x \in S}

\* The keyword arguments tried: every recognised form and some others.
KwArgs ==
    {KwValue("float", n, 0, << >>, NoParameter) : n \in KwNumbers}
    \cup {KwValue("int", n, 0, << >>, NoParameter) : n \in KwNumbers}
    \cup {KwValue("bool", n, 0, << >>, NoParameter) : n \in {0, 1}}
    \cup {KwValue("tuple", 0, 0, t, NoParameter) : t \in SeqsUpTo(KwNumbers, MaxTupleLen)}
    \cup {KwValue("list", 0, 0, t, NoParameter) : t \in SeqsUpTo(KwNumbers, 2)}
    \cup {KwValue("UFloat", n, s, << >>, NoParameter) : n \in KwNumbers, s \in {1, 2}}
    \cup {KwValue("Parameter", 0, 0, << >>,
                  Parameter("user", n, v, -4, 4, "", NoPrior)) :
             n \in KwNumbers, v \in BOOLEAN}
    \cup {KwValue(t, 0, 0, << >>, NoParameter) : t \in {"str", "NoneType", "dict"}}

KwIdle == kwarg = KwValue("NoneType", 0, 0, << >>, NoParameter) /\ kwRes = Pending

KwInit == kwarg \in KwArgs /\ kwRes = Pending

\* One call params[name] = _kw_to_Parameter(name, kwarg).
KwCall ==
    /\ kwRes.st = "pending"
    /\ kwRes' = _kw_to_Parameter("p", kwarg)
    /\ UNCHANGED kwarg

(***************************************************************************)
(* lmfit.Parameters: an ordered mapping from names to parameters.          *)
(* Units: T_0, P, b, f_c, f_s, c, k, sini, e, logrho, log_Q in 1e-3;       *)
(* D in 1e-6; W, h_1, h_2, q_1, q_2 in 1e-4; aR in 1e-2; log_omega0 in     *)
(* 1e-1; log_sigma, log_S0 in 1; sigma_w in 1e-6 (ppm).                    *)
(***************************************************************************)
EmptyParams == [keys |-> << >>, par |-> << >>]

Has(P, name) == \E i \in 1..Len(P.keys) : P.keys[i] = name

IndexOf(P, name) == CHOOSE i \in 1..Len(P.keys) : P.keys[i] = name

Get(P, name) == P.par[IndexOf(P, name)]

\* params[name] = par and params.add(name, ...): a new name goes to the
\* end, a known name keeps its place.
Put(P, par) ==
    IF Has(P, par.name)
    THEN [P EXCEPT !.par[IndexOf(P, par.name)] = par]
    ELSE [keys |-> Append(P.keys, par.name), par |-> Append(P.par, par)]

\* The value a parameter holds after par.value = v: lmfit holds it within
\* the bounds.
Clip(v, lo, hi) == IF v < lo THEN lo ELSE IF v > hi THEN hi ELSE v

SetValue(par, v) == [par EXCEPT !.value = Clip(v, par.min, par.max), !.nan = FALSE]

\* log10 of a number in [1, 10) given in units of 1e-3, in units of 1/1024,
\* one binary digit for each squaring.
RECURSIVE Log10Frac(_, _, _)
Log10Frac(m, digits, weight) ==
    IF digits = 0 THEN 0
    ELSE LET sq == (m * m) \div 1000
         IN IF sq >= 10000
            THEN weight + Log10Frac(sq \div 10, digits - 1, weight \div 2)
            ELSE Log10Frac(sq, digits - 1, weight \div 2)

\* log10(num/den) in units of 1e-3, for num > 0 and den > 0.
RECURSIVE Log10Milli(_, _, _)
Log10Milli(num, den, n) ==
    IF num >= 10 * den THEN Log10Milli(num, den * 10, n + 1)
    ELSE IF num < den THEN Log10Milli(num * 10, den, n - 1)
    ELSE 1000 * n + (Log10Frac((num * 1000) \div den, 10, 512) * 1000) \div 1024

\* exp(n)*1e6 for an integer n <= 0, in units of 1 (ppm).
RECURSIVE ExpPpm(_)
ExpPpm(n) == IF n >= 0 THEN 1000000 ELSE (ExpPpm(n + 1) * 1000) \div 2718

Num(v) == [v |-> v, nan |-> FALSE]
NaN == [v |-> 0, nan |-> TRUE]

\* The value of an expression on the current values of the parameters it
\* names (asteval); NaN where numpy gives nan.
ExprValue(P, expr) ==
    CASE expr = "sqrt(D)" ->
            IF Get(P, "D").value < 0 THEN NaN ELSE Num(ISqrt(Get(P, "D").value))
      [] expr = "sqrt((1+k)**2-b**2)/W/pi" ->
            LET k == Get(P, "k").value
                b == Get(P, "b").value
                W == Get(P, "W").value
                chord == (1000 + k) * (1000 + k) - b * b
            IN IF Get(P, "k").nan \/ chord < 0 \/ W = 0 THEN NaN
               ELSE Num(aRFrom(chord, W))
      [] expr = "sqrt(1 - (b/aR)**2)" ->
            LET b == Get(P, "b").value
                aR == Get(P, "aR").value
                ratio == IF aR = 0 THEN 0 ELSE (b * 100) \div aR
            IN IF Get(P, "aR").nan \/ aR = 0 \/ ratio * ratio > 1000000 THEN NaN
               ELSE Num(ISqrt(1000000 - ratio * ratio))
      [] expr = "log10(4.3275e-4*((1+k)**2-b**2)**1.5/W**3/P**2)" ->
            LET k == Get(P, "k").value
                b == Get(P, "b").value
                W == Get(P, "W").value
                chord == (1000 + k) * (1000 + k) - b * b
            IN IF Get(P, "k").nan \/ chord <= 0 \/ W <= 0 \/ Get(P, "P").value <= 0
               THEN NaN
               ELSE Num(3 * Log10Milli(ISqrt(100 * chord), W, 0)
                        - 2 * Log10Milli(Get(P, "P").value, 1000, 0) - 3364)
      [] expr = "f_c**2 + f_s**2" ->
            Num((Get(P, "f_c").value * Get(P, "f_c").value
                 + Get(P, "f_s").value * Get(P, "f_s").value) \div 1000)
      [] expr = "(1-h_2)**2" ->
            Num(((10000 - Get(P, "h_2").value) * (10000 - Get(P, "h_2").value))
                \div 10000)
      [] expr = "(h_1-h_2)/(1-h_2)" ->
            IF Get(P, "h_2").value = 10000
            THEN (IF Get(P, "h_1").value = 10000 THEN NaN
                  ELSE IF Get(P, "h_1").value > 10000 THEN Num(-Inf) ELSE Num(Inf))
            ELSE Num(((Get(P, "h_1").value - Get(P, "h_2").value) * 10000)
                     \div (10000 - Get(P, "h_2").value))
      [] expr = "exp(log_sigma)*1e6" -> Num(ExpPpm(Get(P, "log_sigma").value))
      [] OTHER -> NaN

\* A parameter with an expression takes the value of the expression, held
\* within its bounds (NaN stays NaN); the others keep theirs.
WithValue(par, x) ==
    IF x.nan THEN [par EXCEPT !.nan = TRUE] ELSE SetValue(par, x.v)

Evaluate(P, i) ==
    IF P.par[i].expr = "" THEN P.par[i]
    ELSE WithValue(P.par[i], ExprValue(P, P.par[i].expr))

\* All expressions evaluated, in the order of the keys (an expression names
\* only parameters added before it).
RECURSIVE RefreshFrom(_, _)
RefreshFrom(P, i) ==
    IF i > Len(P.keys) THEN P
    ELSE RefreshFrom([P EXCEPT !.par[i] = Evaluate(P, i)], i + 1)

Refresh(P) == RefreshFrom(P, 1)

\* params.add(name, value, vary, min, max, expr).
Add(P, name, value, vary, min, max, expr) ==
    Refresh(Put(P, Parameter(name, value, vary, min, max, expr, NoPrior)))

(***************************************************************************)
(* The light curve self.lc, by what the fit reads of it: the number of     *)
(* points n, the smallest, median and largest time (1e-3 d), the smallest  *)
(* and largest flux (1e-3), and whether flux or flux_err holds a NaN.      *)
(***************************************************************************)
LightCurve(n, tmin, tmed, tmax, fmin, fmax, nan) ==
    [n |-> n, tmin |-> tmin, tmed |-> tmed, tmax |-> tmax,
     fmin |-> fmin, fmax |-> fmax, nan |-> nan]

\* np.ptp(time)
Ptp(lc) == lc.tmax - lc.tmin

\* A keyword argument that was not given.
None == KwValue("NoneType", 0, 0, << >>, NoParameter)

(***************************************************************************)
(* The parameters of lmfit_transit, dataset.py:720-805.  Of the keywords   *)
(* that only add a decorrelation parameter when given (dfdbg, dfdcontam,   *)
(* dfdx, ..., lines 765-792, all alike) dfdbg stands for all.              *)
(***************************************************************************)
Building(P) == [ok |-> TRUE, P |-> P, err |-> ""]

Failed(P, err) == [ok |-> FALSE, P |-> P, err |-> err]

\* params[name] = r, for r what the right-hand side gave: a parameter, or
\* the exception that ends the construction.
SetItem(acc, name, r) ==
    IF r.st = "raised" THEN Failed(acc.P, r.err)
    ELSE Building(Refresh(Put(acc.P, [r.par EXCEPT !.name = name])))

\* if kw is None: params.add(default) else: params[name] = _kw_to_Parameter
\* (name, kw); hasDefault is false for a keyword that adds nothing when it
\* is None.
FromKeyword(acc, name, kw, hasDefault, default) ==
    IF ~acc.ok THEN acc
    ELSE IF kw.type = "NoneType" /\ ~hasDefault THEN acc
    ELSE SetItem(acc, name, IF kw.type = "NoneType" THEN Returned(default)
                            ELSE _kw_to_Parameter(name, kw))

\* The keywords of lmfit_transit in the order of lines 720-794, and whether
\* the keyword has a default.
TransitKeywords ==
    << [name |-> "T_0", hasDefault |-> TRUE], [name |-> "P", hasDefault |-> TRUE],
       [name |-> "D", hasDefault |-> TRUE], [name |-> "W", hasDefault |-> TRUE],
       [name |-> "b", hasDefault |-> TRUE], [name |-> "f_c", hasDefault |-> TRUE],
       [name |-> "f_s", hasDefault |-> TRUE], [name |-> "h_1", hasDefault |-> TRUE],
       [name |-> "h_2", hasDefault |-> TRUE], [name |-> "c", hasDefault |-> TRUE],
       [name |-> "dfdbg", hasDefault |-> FALSE],
       [name |-> "glint_scale", hasDefault |-> FALSE] >>

\* The defaults of lines 722-762 (and of lmfit_eclipse, 997-1039); P is the set built so far (the default of
\* W divides by _P = params['P'].value, a positive period in every call
\* tried here).
TransitDefault(name, lc, P) ==
    CASE name = "T_0" -> Parameter("T_0", lc.tmed, TRUE, lc.tmin, lc.tmax, "", NoPrior)
      [] name = "P" -> Parameter("P", 1000, FALSE, -Inf, Inf, "", NoPrior)
      [] name = "D" ->
            Parameter("D", (1000 - lc.fmin) * 1000, TRUE, 0, 500000, "", NoPrior)
      [] name = "W" ->
            Parameter("W", (Ptp(lc) * 10000) \div (2 * Get(P, "P").value), TRUE,
                      (Ptp(lc) * 10000) \div (lc.n * Get(P, "P").value),
                      (Ptp(lc) * 10000) \div Get(P, "P").value, "", NoPrior)
      [] name = "b" -> Parameter("b", 500, TRUE, 0, 1000, "", NoPrior)
      [] name = "L" -> Parameter("L", 1, TRUE, 0, 1000, "", NoPrior)
      [] name = "h_1" -> Parameter("h_1", 7224, FALSE, -Inf, Inf, "", NoPrior)
      [] name = "h_2" -> Parameter("h_2", 6713, FALSE, -Inf, Inf, "", NoPrior)
      [] name = "c" ->
            Parameter("c", 1000, TRUE, lc.fmin \div 2, 2 * lc.fmax, "", NoPrior)
      [] OTHER -> Parameter(name, 0, FALSE, -Inf, Inf, "", NoPrior)

\* The keywords from index i on, each as FromKeyword.
RECURSIVE FromKeywords(_, _, _, _, _)
FromKeywords(acc, keywords, lc, kw, i) ==
    IF i > Len(keywords) THEN acc
    ELSE FromKeywords(
             FromKeyword(acc, keywords[i].name, kw[keywords[i].name],
                         keywords[i].hasDefault,
                         TransitDefault(keywords[i].name, lc, acc.P)),
             keywords, lc, kw, i + 1)

\* Lines 796-805: the derived parameters in the order they are added.
TransitDerived ==
    << [name |-> "k", min |-> 0, max |-> 1000, expr |-> "sqrt(D)"],
       [name |-> "aR", min |-> 100, max |-> Inf, expr |-> "sqrt((1+k)**2-b**2)/W/pi"],
       [name |-> "sini", min |-> -Inf, max |-> Inf, expr |-> "sqrt(1 - (b/aR)**2)"],
       [name |-> "logrho", min |-> -9000, max |-> 6000,
        expr |-> "log10(4.3275e-4*((1+k)**2-b**2)**1.5/W**3/P**2)"],
       [name |-> "e", min |-> 0, max |-> 1000, expr |-> "f_c**2 + f_s**2"],
       [name |-> "q_1", min |-> 0, max |-> 10000, expr |-> "(1-h_2)**2"],
       [name |-> "q_2", min |-> 0, max |-> 10000, expr |-> "(h_1-h_2)/(1-h_2)"] >>

\* params.add(name, min=, max=, expr=) for the entries of derived from index
\* i on; params['logrho'].user_data = logrhoprior follows the add of logrho.
RECURSIVE WithDerived(_, _, _, _)
WithDerived(P, derived, logrhoprior, i) ==
    IF i > Len(derived) THEN P
    ELSE LET d == derived[i]
             prior == IF d.name = "logrho" /\ logrhoprior.type = "UFloat"
                      THEN UFloat(logrhoprior.n, logrhoprior.s) ELSE NoPrior
         IN WithDerived(
                Refresh(Put(P, Parameter(d.name, 0, TRUE, d.min, d.max, d.expr, prior))),
                derived, logrhoprior, i + 1)

\* The keywords and the derived parameters of lmfit_eclipse, lines 996-1074
\* and 1076-1079.
EclipseKeywords ==
    << [name |-> "T_0", hasDefault |-> TRUE], [name |-> "P", hasDefault |-> TRUE],
       [name |-> "D", hasDefault |-> TRUE], [name |-> "W", hasDefault |-> TRUE],
       [name |-> "b", hasDefault |-> TRUE], [name |-> "L", hasDefault |-> TRUE],
       [name |-> "f_c", hasDefault |-> TRUE], [name |-> "f_s", hasDefault |-> TRUE],
       [name |-> "c", hasDefault |-> TRUE], [name |-> "a_c", hasDefault |-> TRUE],
       [name |-> "dfdbg", hasDefault |-> FALSE],
       [name |-> "glint_scale", hasDefault |-> FALSE] >>

EclipseDerived ==
    << [name |-> "k", min |-> 0, max |-> 1000, expr |-> "sqrt(D)"],
       [name |-> "aR", min |-> 100, max |-> Inf, expr |-> "sqrt((1+k)**2-b**2)/W/pi"],
       [name |-> "sini", min |-> -Inf, max |-> Inf, expr |-> "sqrt(1 - (b/aR)**2)"],
       [name |-> "e", min |-> 0, max |-> 1000, expr |-> "f_c**2 + f_s**2"] >>

\* params = Parameters() and all that is put into it; kw is the record of
\* the keyword arguments of the call.
Derive(a, derived, logrhoprior) ==
    IF a.ok THEN Building(WithDerived(a.P, derived, logrhoprior, 1)) ELSE a

BuildParams(keywords, derived, lc, kw) ==
    Derive(FromKeywords(Building(EmptyParams), keywords, lc, kw, 1), derived,
           kw.logrhoprior)

TransitParams(lc, kw) == BuildParams(TransitKeywords, TransitDerived, lc, kw)

\* A call with no keyword given.
NoKeywords ==
    [T_0 |-> None, P |-> None, D |-> None, W |-> None, b |-> None, L |-> None,
     f_c |-> None, f_s |-> None, h_1 |-> None, h_2 |-> None, c |-> None,
     a_c |-> None, dfdbg |-> None, glint_scale |-> None, logrhoprior |-> None]

(***************************************************************************)
(* lmfit_transit and lmfit_eclipse, dataset.py:667-843 and 967-1111.       *)
(* A residual vector is a sequence of terms: the data term of point i,     *)
(* (flux[i] - model[i])/flux_err[i], or the prior term of a parameter,     *)
(* (u.n - value)/u.s.                                                      *)
(***************************************************************************)
DataTerm(i) == [kind |-> "data", i |-> i, name |-> "", n |-> 0, s |-> 0, value |-> 0]

PriorTerm(par) ==
    [kind |-> "prior", i |-> 0, name |-> par.name, n |-> par.user_data.n,
     s |-> par.user_data.s, value |-> par.value]

\* Lines 702-705: the loop over all parameters from index i on, r the vector
\* so far.
RECURSIVE PriorTerms(_, _, _)
PriorTerms(P, i, r) ==
    IF i > Len(P.keys) THEN r
    ELSE PriorTerms(P, i + 1,
                    IF P.par[i].user_data.isU THEN Append(r, PriorTerm(P.par[i]))
                    ELSE r)

\* Mutant: prior terms for the free parameters only.
chisq_prior_free_only(params, N) ==
    [i \in 1..N |-> DataTerm(i)]
        \o SelectSeq([j \in 1..Len(params.keys) |->
                         IF params.par[j].user_data.isU /\ params.par[j].vary
                         THEN PriorTerm(params.par[j]) ELSE DataTerm(0)],
                     LAMBDA t : t.kind = "prior")

\* Lines 700-706, for a light curve of N points.
_chisq_prior(params, N) == PriorTerms(params, 1, [i \in 1..N |-> DataTerm(i)])

\* The result of minimize: its parameters, the residual vector of the last
\* call of _chisq_prior (fvec), and the attributes lines 836-840 assign;
\* hasPriors is false while prior_residual and npriors are not attributes
\* of the result.
MinimizerResult(params, fvec, residual, hasPriors, prior_residual, npriors) ==
    [set |-> TRUE, params |-> params, fvec |-> fvec, residual |-> residual,
     hasPriors |-> hasPriors, prior_residual |-> prior_residual,
     npriors |-> npriors]

NoResult ==
    [set |-> FALSE, params |-> EmptyParams, fvec |-> << >>, residual |-> << >>,
     hasPriors |-> FALSE, prior_residual |-> << >>, npriors |-> 0]

\* What minimize leaves in result.params: the free parameters moved by the
\* optimiser (here all by the same number of units, held within their
\* bounds), the expressions evaluated on them.
Optimum(P, shift) ==
    Refresh([P EXCEPT !.par = [j \in 1..Len(P.keys) |->
                IF P.par[j].vary THEN SetValue(P.par[j], P.par[j].value + shift)
                ELSE P.par[j]]])

\* Lines 832-840: the split of the residual vector r of the parameters
\* best.
Split(best, r, npriors) ==
    IF npriors > 0
    THEN MinimizerResult(best, r, SubSeq(r, 1, Len(r) - npriors), TRUE,
                         SubSeq(r, Len(r) - npriors + 1, Len(r)), npriors)
    ELSE MinimizerResult(best, r, r, FALSE, << >>, 0)

\* result.residual of the parameters minimize ended on.
Residual(best, N) == Split(best, _chisq_prior(best, N), Len(_chisq_prior(best, N)) - N)

\* Lines 828-840: minimize and the split of its residual vector.
Minimize(params, N, shift) == Residual(Optimum(params, shift), N)

\* The GP object: the four kernel parameters it holds, and the number of
\* times they were set.
GPObject(log_S0, log_Q, log_omega0, log_sigma) ==
    [log_S0 |-> log_S0, log_Q |-> log_Q, log_omega0 |-> log_omega0,
     log_sigma |-> log_sigma, sets |-> 0]

\* gp = None
NoGP == [log_S0 |-> 0, log_Q |-> 0, log_omega0 |-> 0, log_sigma |-> 0, sets |-> -1]

\* The result object emcee_sampler stores: unset until lines 1290-1327 fill
\* it.  chain is the flattened chain, a sequence of rows; lnprob the
\* log-probability trace; argmax, the index of line 1281, and lnsign, the
\* values the log-posterior took; used, of the history of the call, the posterior
\* function given to the walker loop and the sampler, the one called for
\* bestfit, and the model (self.model at line 1153) they evaluated.
NoChain ==
    [set |-> FALSE, var_names |-> << >>, init_vals |-> << >>, chain |-> << >>,
     lnprob |-> << >>, bestfit |-> "None", params |-> EmptyParams,
     params_best |-> EmptyParams, nvarys |-> 0, nfev |-> 0, ndata |-> 0,
     nfree |-> 0, argmax |-> 0, lnsign |-> 0,
     used |-> [sampler |-> "None", bestfit |-> "None", model |-> "None"]]

\* The Dataset object by the attributes the fits read and write: whether
\* get_lightcurve has set self.lc and the light curve, whether add_glint
\* has set f_theta and f_glint, self.model, self.lmfit, self.emcee,
\* whether self.sampler is set, self.gp and __lastfit__.
Dataset(hasLc, lc, glint) ==
    [hasLc |-> hasLc, lc |-> lc, glint |-> glint, model |-> "None",
     lmfit |-> NoResult, emcee |-> NoChain, hasSampler |-> FALSE,
     gp |-> NoGP, lastfit |-> "None"]

\* What a call leaves: the object, and the exception raised ("" for none).
Outcome(self, err) == [self |-> self, err |-> err]

\* The body shared by lmfit_transit and lmfit_eclipse.
\* Mutant: the glint functions are not asked for.
fit_of_no_glint_check(self, a, model, shift) ==
    IF ~a.ok THEN Outcome(self, a.err)
    ELSE Outcome([self EXCEPT !.model = model,
                              !.lmfit = Minimize(a.P, self.lc.n, shift),
                              !.lastfit = "lmfit"], "")

\* The fit of the parameters built, a.
FitOf(self, a, model, shift) ==
    IF ~a.ok THEN Outcome(self, a.err)
    ELSE IF Has(a.P, "glint_scale") /\ ~self.glint
    THEN Outcome(self, "AttributeError: Use add_glint() to first.")
    ELSE Outcome([self EXCEPT !.model = model,
                              !.lmfit = Minimize(a.P, self.lc.n, shift),
                              !.lastfit = "lmfit"], "")

\* Mutant: the light curve is not asked for.
fit_no_lc_check(self, keywords, derived, model, kw, shift) ==
    FitOf(self, BuildParams(keywords, derived, self.lc, kw), model, shift)

Fit(self, keywords, derived, model, kw, shift) ==
    IF ~self.hasLc
    THEN Outcome(self, "AttributeError: Use get_lightcurve() to load data first.")
    ELSE FitOf(self, BuildParams(keywords, derived, self.lc, kw), model, shift)

lmfit_transit(self, kw, shift) ==
    Fit(self, TransitKeywords, TransitDerived, "TransitModel", kw, shift)

\* Mutant: lmfit_eclipse leaves __lastfit__ as it was.
lmfit_eclipse_no_flag(self, kw, shift) ==
    Outcome([Fit(self, EclipseKeywords, EclipseDerived, "EclipseModel", kw, shift).self
                EXCEPT !.lastfit = self.lastfit],
            Fit(self, EclipseKeywords, EclipseDerived, "EclipseModel", kw, shift).err)

lmfit_eclipse(self, kw, shift) ==
    Fit(self, EclipseKeywords, EclipseDerived, "EclipseModel", kw, shift)

(***************************************************************************)
(* The log-posterior functions, dataset.py:118-207.                        *)
(* model.eval is code outside this file: what it returns is an input, fit, *)
(* the class of the prediction ("finite", or "nan" when some point of it   *)
(* is not finite).  A result is [ret, fit, evals, gp]: the class of the    *)
(* value returned ("fit" when the prediction itself is returned), the      *)
(* class of the prediction, the number of model evaluations made, and the  *)
(* GP object as the call leaves it.                                        *)
(***************************************************************************)
PostResult(ret, fit, evals, gp) == [ret |-> ret, fit |-> fit, evals |-> evals, gp |-> gp]

\* Lines 125-129 (169-173): the loop over vn from index i on.  Each value is
\* compared with the bounds of its parameter before it is assigned; ok is
\* false when the loop returned -np.inf.
RECURSIVE AssignFrom(_, _, _, _)
AssignFrom(P, vn, pos, i) ==
    IF i > Len(vn) THEN [ok |-> TRUE, P |-> P]
    ELSE LET j == IndexOf(P, vn[i])
             v == pos[i]
         IN IF (v < P.par[j].min) \/ (v > P.par[j].max)
            THEN [ok |-> FALSE, P |-> P]
            ELSE AssignFrom([P EXCEPT !.par[j] = SetValue(@, v)], vn, pos, i + 1)

\* Mutant: the values are assigned without the comparison; the assignment
\* holds each within its bounds.
ProposalUnchecked(P, vn, pos) ==
    [ok |-> TRUE, params |-> P,
     P |-> [P EXCEPT !.par = [j \in 1..Len(P.keys) |->
              IF \E n \in 1..Len(vn) : vn[n] = P.keys[j]
              THEN SetValue(P.par[j],
                            pos[CHOOSE n \in 1..Len(vn) : vn[n] = P.keys[j]])
              ELSE P.par[j]]]]

\* Mutant: parcopy = params, the loop over vn assigning to the set given.
proposal_in_place(P, vn, pos) ==
    [ok |-> AssignFrom(P, vn, pos, 1).ok, P |-> AssignFrom(P, vn, pos, 1).P,
     params |-> AssignFrom(P, vn, pos, 1).P]

\* parcopy = params.copy() and the loop over vn: ok, whether the loop went
\* through, P, parcopy after it, and params, the set given after it.
Proposal(P, vn, pos) ==
    [ok |-> AssignFrom(P, vn, pos, 1).ok, P |-> AssignFrom(P, vn, pos, 1).P,
     params |-> P]

\* -0.5*((u.n - v)/u.s)**2 by its class (numpy division: x/0 is inf, 0/0 nan).
GaussClass(u, v) ==
    IF u.s # 0 THEN "finite" ELSE IF u.n = v THEN "nan" ELSE "neginf"

\* Lines 143-153 (186-196): the loop over all parameters from index i on,
\* lnprior the class of the sum so far; "neginf" when the loop returned.
RECURSIVE PriorLoop(_, _, _)
PriorLoop(P, i, lnprior) ==
    IF i > Len(P.keys) THEN (IF IsFinite(lnprior) THEN lnprior ELSE "neginf")
    ELSE LET q == P.par[i]
         IN IF ~q.nan /\ ((q.value < q.min) \/ (q.value > q.max)) THEN "neginf"
            ELSE IF q.nan THEN "neginf"
            ELSE PriorLoop(P, i + 1,
                           IF q.user_data.isU
                           THEN AddClass(lnprior, GaussClass(q.user_data, q.value))
                           ELSE lnprior)

\* Lines 139-153: the class of lnprior, "neginf" for every early return.
LnPrior(P) ==
    LET geo == _log_prior(Get(P, "D").value, Get(P, "W").value, Get(P, "b").value)
    IN IF ~IsFinite(geo) THEN "neginf" ELSE PriorLoop(P, 1, geo)

\* Lines 155-157: jitter = exp(log_sigma) is positive, so s2 is; the sum is
\* NaN when flux or flux_err holds a NaN.
LnLikeJitter(lc, P) == IF lc.nan THEN "nan" ELSE "finite"

\* celerite's GP.log_likelihood returns -inf for a likelihood that is not
\* finite.
GPLogLikelihood(lc, gp) == IF lc.nan THEN "neginf" ELSE "finite"

\* Lines 199-206: the four gp.set_parameter calls.
SetKernel(gp, P) ==
    [log_S0 |-> Get(P, "log_S0").value, log_Q |-> Get(P, "log_Q").value,
     log_omega0 |-> Get(P, "log_omega0").value,
     log_sigma |-> Get(P, "log_sigma").value, sets |-> gp.sets + 1]

\* Lines 154-158: lnprior was computed without a return; the likelihood is
\* added.
JitterSum(lnprior, lnlike, fit) ==
    IF lnprior = "neginf" THEN PostResult("neginf", fit, 1, NoGP)
    ELSE PostResult(AddClass(lnlike, lnprior), fit, 1, NoGP)

\* Mutant: return_fit is looked at after the test of the prediction.
jitter_on_test_first(a, parcopy, fit, lc, return_fit) ==
    IF ~a.ok THEN PostResult("neginf", "none", 0, NoGP)
    ELSE IF ~IsFinite(fit) THEN PostResult("neginf", fit, 1, NoGP)
    ELSE IF return_fit THEN PostResult("fit", fit, 1, NoGP)
    ELSE JitterSum(LnPrior(parcopy), LnLikeJitter(lc, parcopy), fit)

\* Lines 131-158, on the parameters of the proposal.
JitterOn(a, parcopy, fit, lc, return_fit) ==
    IF ~a.ok THEN PostResult("neginf", "none", 0, NoGP)
    ELSE IF return_fit THEN PostResult("fit", fit, 1, NoGP)
    ELSE IF ~IsFinite(fit) THEN PostResult("neginf", fit, 1, NoGP)
    ELSE JitterSum(LnPrior(parcopy), LnLikeJitter(lc, parcopy), fit)

_log_posterior_jitter(pos, fit, lc, params, vn, return_fit) ==
    JitterOn(Proposal(params, vn, pos), Refresh(Proposal(params, vn, pos).P),
             fit, lc, return_fit)

\* Lines 198-207: the kernel parameters are set, the likelihood is added.
SHOTermSum(lnprior, lc, kernel, fit, gp) ==
    IF lnprior = "neginf" THEN PostResult("neginf", fit, 1, gp)
    ELSE PostResult(AddClass(GPLogLikelihood(lc, kernel), lnprior), fit, 1, kernel)

\* Lines 175-207, on the parameters of the proposal.
SHOTermOn(a, parcopy, fit, lc, gp, return_fit) ==
    IF ~a.ok THEN PostResult("neginf", "none", 0, gp)
    ELSE IF return_fit THEN PostResult("fit", fit, 1, gp)
    ELSE IF ~IsFinite(fit) THEN PostResult("neginf", fit, 1, gp)
    ELSE SHOTermSum(LnPrior(parcopy), lc, SetKernel(gp, parcopy), fit, gp)

_log_posterior_SHOTerm(pos, fit, lc, params, vn, gp, return_fit) ==
    SHOTermOn(Proposal(params, vn, pos), Refresh(Proposal(params, vn, pos).P),
              fit, lc, gp, return_fit)

\* log_posterior_func(pos, *args): the variant emcee_sampler chose.
log_posterior_func(pos, fit, lc, params, vn, gp, return_fit) ==
    IF gp = NoGP THEN _log_posterior_jitter(pos, fit, lc, params, vn, return_fit)
    ELSE _log_posterior_SHOTerm(pos, fit, lc, params, vn, gp, return_fit)

(***************************************************************************)
(* emcee_sampler, dataset.py:1170-1250: the working parameters, the free   *)
(* vector and the choice of the posterior variant.                         *)
(***************************************************************************)
\* Lines 1173-1204: the keywords in the order they are handled; gp for those
\* handled only with add_shoterm, live for the one tested against params
\* itself ('log_Q' in params) and not against the keys k taken at line 1172.
SamplerKeywords ==
    << [name |-> "log_S0", gp |-> TRUE, live |-> FALSE,
        default |-> Parameter("log_S0", -12, TRUE, -30, 0, "", NoPrior)],
       [name |-> "log_omega0", gp |-> TRUE, live |-> FALSE,
        default |-> Parameter("log_omega0", 30, TRUE, -23, 80, "", NoPrior)],
       [name |-> "log_Q", gp |-> TRUE, live |-> TRUE,
        default |-> Parameter("log_Q", -347, FALSE, -Inf, Inf, "", NoPrior)],
       [name |-> "log_sigma", gp |-> FALSE, live |-> FALSE,
        default |-> [Parameter("log_sigma", -10, TRUE, -16, -1, "", NoPrior)
                        EXCEPT !.stderr = [kind |-> "finite", v |-> 1]]] >>

\* Mutant: a keyword that is given replaces the parameter of its name.
RECURSIVE sampler_keywords_first(_, _, _, _)
sampler_keywords_first(acc, k, kw, i) ==
    IF i > Len(SamplerKeywords) THEN acc
    ELSE LET e == SamplerKeywords[i]
             pass == \/ ~acc.ok
                     \/ e.gp /\ ~kw.add_shoterm
                     \/ Has(acc.P, e.name) /\ kw[e.name].type = "NoneType"
         IN sampler_keywords_first(
                IF pass THEN acc
                ELSE FromKeyword(acc, e.name, kw[e.name], TRUE, e.default),
                k, kw, i + 1)

\* The keywords from index i on; k is the parameter set as it was at line
\* 1172, kw holds add_shoterm and the four keywords.
RECURSIVE FromSamplerKeywords(_, _, _, _)
FromSamplerKeywords(acc, k, kw, i) ==
    IF i > Len(SamplerKeywords) THEN acc
    ELSE LET e == SamplerKeywords[i]
             pass == \/ ~acc.ok
                     \/ e.gp /\ ~kw.add_shoterm
                     \/ IF e.live THEN Has(acc.P, e.name) ELSE Has(k, e.name)
         IN FromSamplerKeywords(
                IF pass THEN acc
                ELSE FromKeyword(acc, e.name, kw[e.name], TRUE, e.default),
                k, kw, i + 1)

\* Lines 1170-1205: the working parameters.
\* Line 1205: params.add('sigma_w', expr='exp(log_sigma)*1e6').
WithSigmaW(a) ==
    IF ~a.ok THEN a
    ELSE Building(Add(a.P, "sigma_w", 0, TRUE, -Inf, Inf, "exp(log_sigma)*1e6"))

SamplerParams(params, kw) ==
    WithSigmaW(FromSamplerKeywords(Building(params), params, kw, 1))

\* The keywords of a call emcee_sampler() with the defaults; params is the
\* empty set for params=None; own is true for params=self.lmfit.params, the
\* parameter set of the stored least-squares result itself.
SamplerDefaults ==
    [params |-> EmptyParams, own |-> FALSE, add_shoterm |-> FALSE, log_S0 |-> None,
     log_omega0 |-> None, log_Q |-> None, log_sigma |-> None]

\* Mutant: the sigma of the prior is used whenever stderr is not a finite
\* number.
scatter_prior_first(q) ==
    IF q.stderr.kind = "finite" THEN q.stderr.v
    ELSE IF q.user_data.isU THEN q.user_data.s
    ELSE IF q.min = -Inf \/ q.max = Inf THEN Inf ELSE (q.max - q.min) \div 10

\* 0.1*(params[p].max - params[p].min); infinite for an infinite bound.
TenthOfRange(q) ==
    IF q.min = -Inf \/ q.max = Inf THEN Inf ELSE (q.max - q.min) \div 10

\* Lines 1214-1223: the uncertainty that scatters the walkers in q.
Scatter(q) ==
    IF q.stderr.kind = "None"
    THEN IF ~q.user_data.isU THEN TenthOfRange(q) ELSE q.user_data.s
    ELSE IF q.stderr.kind = "finite" THEN q.stderr.v
    ELSE TenthOfRange(q)

\* Mutant: a parameter defined by an expression is taken as free too.
RECURSIVE free_vector_with_derived(_, _)
free_vector_with_derived(P, i) ==
    IF i > Len(P.keys) THEN [vn |-> << >>, vv |-> << >>, vs |-> << >>]
    ELSE LET rest == free_vector_with_derived(P, i + 1)
         IN IF P.par[i].vary \/ P.par[i].expr # ""
            THEN [vn |-> <<P.keys[i]>> \o rest.vn,
                  vv |-> <<P.par[i].value>> \o rest.vv,
                  vs |-> <<Scatter(P.par[i])>> \o rest.vs]
            ELSE rest

\* Lines 1207-1223: vn, vv and vs, over the parameters from index i on.
RECURSIVE FreeVector(_, _)
FreeVector(P, i) ==
    IF i > Len(P.keys) THEN [vn |-> << >>, vv |-> << >>, vs |-> << >>]
    ELSE LET rest == FreeVector(P, i + 1)
         IN IF P.par[i].vary
            THEN [vn |-> <<P.keys[i]>> \o rest.vn,
                  vv |-> <<P.par[i].value>> \o rest.vv,
                  vs |-> <<Scatter(P.par[i])>> \o rest.vs]
            ELSE rest

\* Mutant: no GP object is made.
choose_gp_none(P) == NoGP

\* Lines 1236, 1243 and 1246: the posterior function chosen.
ChooseFunc(P) ==
    IF Has(P, "log_S0") /\ Has(P, "log_omega0") /\ Has(P, "log_Q")
    THEN "_log_posterior_SHOTerm"
    ELSE "_log_posterior_jitter"

\* Lines 1235-1248: the GP object when the parameters hold the three kernel
\* parameters, None otherwise.
ChooseGP(P) ==
    IF Has(P, "log_S0") /\ Has(P, "log_omega0") /\ Has(P, "log_Q")
    THEN GPObject(Get(P, "log_S0").value, Get(P, "log_Q").value,
                  Get(P, "log_omega0").value, Get(P, "log_sigma").value)
    ELSE NoGP

(***************************************************************************)
(* A posterior function called twice: on a vector, and on the same vector  *)
(* with one component one unit outside the bounds of its parameter.        *)
(***************************************************************************)
\* The light curve of the calls tried: 4 points over 0.3 d, flux between
\* 0.990 and 1.001.
LcPoints == 4
SomeLc(nan) == LightCurve(LcPoints, 0, 150, 300, 990, 1001, nan)

\* What model.eval may return.
FitClasses == {"finite", "nan"}

\* The values tried for each component of a proposal.
PosGrid(name) ==
    CASE name = "D" -> {0, 1, 10000, 200000, 300000}
      [] name = "W" -> {750, 1000, 1690, 3000}
      [] name = "b" -> {0, 300, 1000}
      [] name = "log_sigma" -> {-16, -10, -1}
      [] name = "T_0" -> {150}
      [] name = "c" -> {1000}
      [] name = "log_S0" -> {-12}
      [] name = "log_omega0" -> {30}
      [] name = "h_1" -> {5000, 10000}
      [] name = "h_2" -> {7500, 10000}
      [] OTHER -> {0}

\* All vectors with component i in PosGrid(vn[i]).
RECURSIVE Vectors(_, _)
Vectors(vn, i) ==
    IF i > Len(vn) THEN {<< >>}
    ELSE {<<x>> \o t : x \in PosGrid(vn[i]), t \in Vectors(vn, i + 1)}

Unset == PostResult("unset", "none", 0, NoGP)

NotMoved == [i |-> 0, side |-> "none"]

VarNames(P) == FreeVector(P, 1).vn

PostIdle ==
    /\ postLc = SomeLc(FALSE)
    /\ postParams = EmptyParams
    /\ postGp = NoGP
    /\ postPos = << >>
    /\ postBase = Unset
    /\ postAt = NotMoved
    /\ postPert = Unset

\* The keywords of the fits tried: the defaults, and h_1 and h_2 both free
\* between 0.5 and 1.
PostKeywords ==
    {NoKeywords,
     [NoKeywords EXCEPT !.h_1 = KwValue("tuple", 0, 0, <<5000, 10000>>, NoParameter),
                        !.h_2 = KwValue("tuple", 0, 0, <<5000, 10000>>, NoParameter)]}

\* The parameters are those of lmfit_transit(**kw) for kw in PostKeywords
\* and emcee_sampler() called with its defaults, with or without
\* add_shoterm.
PostInit ==
    /\ \E nan \in BOOLEAN : postLc = SomeLc(nan)
    /\ \E sho \in BOOLEAN, kw \in PostKeywords :
          postParams = SamplerParams(TransitParams(postLc, kw).P,
                                     [SamplerDefaults EXCEPT !.add_shoterm = sho]).P
    /\ postGp = ChooseGP(postParams)
    /\ postPos \in Vectors(VarNames(postParams), 1)
    /\ postBase = Unset
    /\ postAt = NotMoved
    /\ postPert = Unset

\* log_posterior_func(pos, *args) with return_fit false.
PostEvalBase ==
    /\ postBase = Unset
    /\ \E fit \in FitClasses :
          postBase' = log_posterior_func(postPos, fit, postLc, postParams,
                                         VarNames(postParams), postGp, FALSE)
    /\ postGp' = postBase'.gp
    /\ postParams' = Proposal(postParams, VarNames(postParams), postPos).params
    /\ UNCHANGED <<postLc, postPos, postAt, postPert>>

\* log_posterior_func(pos, *args) with return_fit true.
PostEvalFit ==
    /\ postBase = Unset
    /\ \E fit \in FitClasses :
          postBase' = log_posterior_func(postPos, fit, postLc, postParams,
                                         VarNames(postParams), postGp, TRUE)
    /\ postGp' = postBase'.gp
    /\ postAt' = [i |-> 0, side |-> "fit"]
    /\ postParams' = Proposal(postParams, VarNames(postParams), postPos).params
    /\ UNCHANGED <<postLc, postPos, postPert>>

\* The vector with component i put one unit below the min (side "below")
\* or above the max of its parameter.
Moved(pos, P, vn, i, side) ==
    [pos EXCEPT ![i] = IF side = "below" THEN Get(P, vn[i]).min - 1
                       ELSE Get(P, vn[i]).max + 1]

\* The same function on the moved vector.
PostEvalMoved ==
    /\ postBase # Unset
    /\ postPert = Unset
    /\ postAt = NotMoved
    /\ \E i \in 1..Len(postPos), side \in {"below", "above"}, fit \in FitClasses :
          /\ side = "below" => Get(postParams, VarNames(postParams)[i]).min # -Inf
          /\ side = "above" => Get(postParams, VarNames(postParams)[i]).max # Inf
          /\ postAt' = [i |-> i, side |-> side]
          /\ postPert' = log_posterior_func(
                             Moved(postPos, postParams, VarNames(postParams), i, side),
                             fit, postLc, postParams, VarNames(postParams),
                             postGp, FALSE)
          /\ postParams' =
                Proposal(postParams, VarNames(postParams),
                         Moved(postPos, postParams, VarNames(postParams), i, side)).params
    /\ postGp' = postPert'.gp
    /\ UNCHANGED <<postLc, postPos, postBase>>

(***************************************************************************)
(* One fit on a Dataset object.                                            *)
(***************************************************************************)
\* The keyword arguments tried for each keyword: None, a float, a tuple, a
\* ufloat, a fixed Parameter that carries a ufloat, and a str for c.
FitChoices(name) ==
    CASE name = "P" -> {None, KwValue("float", 2000, 0, << >>, NoParameter)}
      [] name = "D" -> {None, KwValue("UFloat", 10000, 1000, << >>, NoParameter),
                        KwValue("tuple", 0, 0, <<5000, 20000>>, NoParameter)}
      [] name = "W" -> {None, KwValue("UFloat", 1500, 100, << >>, NoParameter),
                        KwValue("float", 1500, 0, << >>, NoParameter)}
      [] name = "f_c" -> {None, KwValue("Parameter", 0, 0, << >>,
                                          Parameter("f_c", 0, FALSE, -Inf, Inf, "",
                                                    UFloat(0, 50)))}
      [] name = "c" -> {None, KwValue("str", 0, 0, << >>, NoParameter)}
      [] name = "dfdbg" -> {None, KwValue("UFloat", 0, 1, << >>, NoParameter)}
      [] name = "glint_scale" -> {None, KwValue("float", 1000, 0, << >>, NoParameter)}
      [] name = "logrhoprior" -> {None, KwValue("UFloat", -900, 100, << >>, NoParameter)}
      [] OTHER -> {None}

FitKeywords ==
    {[NoKeywords EXCEPT !.P = p, !.D = d, !.W = w, !.f_c = fc, !.c = c,
                        !.dfdbg = g, !.glint_scale = gl, !.logrhoprior = lr] :
        p \in FitChoices("P"), d \in FitChoices("D"), w \in FitChoices("W"),
        fc \in FitChoices("f_c"), c \in FitChoices("c"), g \in FitChoices("dfdbg"),
        gl \in FitChoices("glint_scale"), lr \in FitChoices("logrhoprior")}

\* How far the optimiser moves the free parameters.
MaxShift == 1

DataIdle == dataset = Dataset(FALSE, SomeLc(FALSE), FALSE) /\ raised = ""

\* A new Dataset object, before or after get_lightcurve and add_glint.
DataInit ==
    /\ \E hasLc, nan, glint \in BOOLEAN : dataset = Dataset(hasLc, SomeLc(nan), glint)
    /\ raised = ""

\* dataset.lmfit_transit(**kw)
LmfitTransit ==
    /\ dataset.lastfit = "None" /\ raised = ""
    /\ \E kw \in FitKeywords, shift \in -MaxShift..MaxShift :
          \E o \in {lmfit_transit(dataset, kw, shift)} :
             dataset' = o.self /\ raised' = o.err

\* dataset.lmfit_eclipse(**kw)
LmfitEclipse ==
    /\ dataset.lastfit = "None" /\ raised = ""
    /\ \E kw \in FitKeywords, shift \in -MaxShift..MaxShift :
          /\ kw.logrhoprior = None
          /\ \E o \in {lmfit_eclipse(dataset, kw, shift)} :
                dataset' = o.self /\ raised' = o.err

(***************************************************************************)
(* emcee_sampler, dataset.py:1141-1331, as the steps of one call with      *)
(* params=None.  emPc is the place of the call: "idle" before it, "init"   *)
(* in the loop that places the walkers, "burn" and "production" in the two *)
(* run_mcmc calls, "summary" from line 1280 on, "done" after the return,   *)
(* "raised" after an exception.                                            *)
(***************************************************************************)
\* The arguments of the call; init_scale in units of 1e-3, kw the record of
\* add_shoterm, log_S0, log_omega0, log_Q and log_sigma.
SamplerArgs(steps, nwalkers, burn, thin, init_scale, kw) ==
    [steps |-> steps, nwalkers |-> nwalkers, burn |-> burn, thin |-> thin,
     init_scale |-> init_scale, kw |-> kw]

NoArgs == SamplerArgs(0, 0, 0, 0, 0, SamplerDefaults)

\* The locals params, vn, vv, vs, gp and log_posterior_func (by its name).
Work(params, vn, vv, vs, gp, func) ==
    [params |-> params, vn |-> vn, vv |-> vv, vs |-> vs, gp |-> gp,
     log_posterior_func |-> func]

NoWork == Work(EmptyParams, << >>, << >>, << >>, NoGP, "None")

\* A walker: its position and the class of the log-posterior there.
Walker(x, lp) == [x |-> x, lp |-> lp]

\* EnsembleSampler(nwalkers, n_varys, ...), line 1266: the state of the run
\* in progress (coords, empty between runs, and inner, the iterations
\* done), the stored chain, and the history of the call: burnt, the burn-in
\* iterations done, burnEnd, the positions burn-in ended on, prodStart, the
\* positions production began on.
EnsembleSampler(nwalkers, ndim) ==
    [nwalkers |-> nwalkers, ndim |-> ndim, coords |-> << >>, inner |-> 0,
     chain |-> << >>, burnt |-> 0, burnEnd |-> << >>, prodStart |-> << >>]

NoSampler == EnsembleSampler(0, 0)

\* A stored sample: the position, the class of its log-probability, and
\* where it was taken: the phase, the stored step and the walker.
Row(w, phase, step, k) ==
    [x |-> w.x, lp |-> w.lp, phase |-> phase, step |-> step, walker |-> k]

\* Mutant: production without burn-in.
next_phase_no_burn(pc) ==
    CASE pc = "idle" -> "init"
      [] pc = "init" -> "production"
      [] pc = "burn" -> "production"
      [] pc = "production" -> "summary"
      [] OTHER -> "done"

\* The order of the statements of lines 1254-1331.
NextPhase(pc) ==
    CASE pc = "idle" -> "init"
      [] pc = "init" -> "burn"
      [] pc = "burn" -> "production"
      [] pc = "production" -> "summary"
      [] OTHER -> "done"

\* Lines 1207-1250: the locals from the working parameters a and their free
\* vector fv.
WorkOf(a, fv) ==
    IF ~a.ok THEN [err |-> a.err, work |-> NoWork]
    ELSE [err |-> "", work |-> Work(a.P, fv.vn, fv.vv, fv.vs, ChooseGP(a.P),
                                    ChooseFunc(a.P))]

WorkFrom(a) == WorkOf(a, FreeVector(a.P, 1))

\* Mutant: self.model is not asked for.
sampler_enter_no_model_check(self, args) ==
    IF ~self.hasLc
    THEN [err |-> "AttributeError: Use get_lightcurve() to load data first.",
          work |-> NoWork]
    ELSE WorkFrom(SamplerParams(self.lmfit.params, args.kw))

\* Lines 1146-1250: what the call has built when it reaches the loop, or the
\* exception raised before.
SamplerEnter(self, args) ==
    IF ~self.hasLc
    THEN [err |-> "AttributeError: Use get_lightcurve() to load data first.",
          work |-> NoWork]
    ELSE IF self.model = "None"
    THEN [err |-> "AttributeError: Use lmfit_transit() or lmfit_eclipse() first.",
          work |-> NoWork]
    ELSE WorkFrom(SamplerParams(IF args.kw.params = EmptyParams
                                THEN self.lmfit.params ELSE args.kw.params,
                                args.kw))

\* Lines 1170-1205: self when the call reaches the loop or raises.  Only
\* with params=None is a copy made (line 1171): a set given is worked on in
\* place, and with params=self.lmfit.params that set is the one of the
\* least-squares result.
AfterEnter(self, args) ==
    IF args.kw.own /\ self.hasLc /\ self.model # "None"
    THEN [self EXCEPT !.lmfit.params = SamplerParams(self.lmfit.params, args.kw).P]
    ELSE self

\* a/b to the nearest whole number, for b > 0.
Round(a, b) == (2 * a + b) \div (2 * b)

\* Line 1261: pos_i = vv + vs*np.random.randn(n_varys)*init_scale, z the
\* normal deviates.
PosDraw(vv, vs, z, init_scale) ==
    [i \in 1..Len(vv) |-> vv[i] + Round(vs[i] * z[i] * init_scale, 1000)]

\* The positions line 1261 may give, for deviates of at most maxZ.
PosDraws(vv, vs, maxZ, init_scale) ==
    {PosDraw(vv, vs, z, init_scale) : z \in [1..Len(vv) -> -maxZ..maxZ]}

\* The GP object as a call of the posterior function leaves it (whether its
\* parameters were ever set, not how often).
AfterCall(gp) == [gp EXCEPT !.sets = IF @ > 1 THEN 1 ELSE @]

\* log_posterior_func(pos_i, *args) of lines 1262 and of the sampler.
LogProb(x, fit) ==
    IF emWork.log_posterior_func = "_log_posterior_jitter"
    THEN _log_posterior_jitter(x, fit, dataset.lc, emWork.params, emWork.vn, FALSE)
    ELSE _log_posterior_SHOTerm(x, fit, dataset.lc, emWork.params, emWork.vn,
                                emWork.gp, FALSE)

\* The name of the function lines 1283-1288 call: the test is gp is None.
BestFitFunc(gp) ==
    IF gp = NoGP THEN "_log_posterior_jitter" ELSE "_log_posterior_SHOTerm"

\* Lines 1282-1288: fit, from the posterior function with return_fit true
\* on the best row; what it returns is the prediction (its class) or, from
\* the loop over vn, -np.inf.
BestFit(x, fit) ==
    IF BestFitFunc(emWork.gp) = "_log_posterior_jitter"
    THEN _log_posterior_jitter(x, fit, dataset.lc, emWork.params, emWork.vn, TRUE)
    ELSE _log_posterior_SHOTerm(x, fit, dataset.lc, emWork.params, emWork.vn,
                                emWork.gp, TRUE)

Returns(r) == IF r.ret = "fit" THEN r.fit ELSE r.ret

\* emcee's stretch move: the proposal of a walker at xk from the walker at
\* xj is xj + Z*(xk - xj), Z between 1/2 and 2; here Z = 2.
Stretch(xk, xj) == [i \in 1..Len(xk) |-> 2 * xk[i] - xj[i]]

\* What iteration number inner may do: nothing (k = 0: every proposal
\* rejected), or move one walker, the walkers taking turns, to its proposal
\* from the next walker.
Moves(nwalkers, inner) == {0, (inner % nwalkers) + 1}

\* One iteration on coords: the proposal is accepted unless its
\* log-probability is -inf; nan is true when the log-probability is NaN,
\* for which emcee raises.
Accept(coords, k, y, lp) ==
    [coords |-> IF lp = "neginf" THEN coords
                ELSE [coords EXCEPT ![k] = Walker(y, lp)],
     nan |-> lp = "nan"]

Propose(coords, k, y, fit) == Accept(coords, k, y, LogProb(y, fit).ret)

Iterate(coords, k, fit) ==
    IF k = 0 THEN [coords |-> coords, nan |-> FALSE]
    ELSE Propose(coords, k, Stretch(coords[k].x, coords[(k % Len(coords)) + 1].x),
                 fit)

\* The start of run_mcmc(pos, ...): the log-probability of the initial
\* state is computed.
InitialState(pos, fit) ==
    [k \in 1..Len(pos) |-> Walker(pos[k].x, LogProb(pos[k].x, fit).ret)]

\* store=False keeps nothing; otherwise the rows of one stored step are
\* added.
Store(store, chain, coords, phase, step) ==
    IF store THEN chain \o [k \in 1..Len(coords) |-> Row(coords[k], phase, step, k)]
    ELSE chain

\* Mutant: every iteration is stored.
stores_every_iteration(inner, thin) == inner >= 0

\* thin_by=thin: a step is stored after every thin iterations.
StoresAfter(inner, thin) == inner % thin = 0

\* The values of the log-posterior come from model.eval, outside this file:
\* in the calls tried the value at x is the sum of the coordinates of x or
\* its opposite, so that the largest value is at either end of the samples.
LnSigns == {1, -1}

RECURSIVE SumSeq(_)
SumSeq(x) == IF x = << >> THEN 0 ELSE Head(x) + SumSeq(Tail(x))

LnValue(sign, x) == sign * SumSeq(x)

\* The sample emcee's backend holds at [step, walker]: every stored step
\* added one row for each walker, in their order.
StoredAt(sampler, s, w) == sampler.chain[(s - 1) * sampler.nwalkers + w]

StoredSteps(sampler) == Len(sampler.chain) \div sampler.nwalkers

\* sampler.get_chain(): steps x walkers x ndim.
get_chain(sampler) ==
    [s \in 1..StoredSteps(sampler) |->
        [w \in 1..sampler.nwalkers |-> StoredAt(sampler, s, w).x]]

\* sampler.get_log_prob(): steps x walkers.
get_log_prob(sampler, sign) ==
    [s \in 1..StoredSteps(sampler) |->
        [w \in 1..sampler.nwalkers |-> LnValue(sign, StoredAt(sampler, s, w).x)]]

\* Mutant: the chain flattened walker by walker.
flat_chain_walker_major(sampler) ==
    LET a == get_chain(sampler)
    IN [i \in 1..(Len(a) * sampler.nwalkers) |->
           a[((i - 1) % Len(a)) + 1][((i - 1) \div Len(a)) + 1]]

\* Line 1280: sampler.get_chain(flat=True).reshape((-1, len(vn))), the
\* steps one after the other and, within a step, the walkers in order.
FlatChain(sampler) ==
    LET a == get_chain(sampler)
    IN [i \in 1..(Len(a) * sampler.nwalkers) |->
           a[((i - 1) \div sampler.nwalkers) + 1][((i - 1) % sampler.nwalkers) + 1]]

\* Line 1281: np.argmax of the steps x walkers array: the index, in the
\* array flattened row by row, of the first of its largest values (the
\* first row when nothing is stored).
ArgMax(sampler, sign) ==
    LET a == get_log_prob(sampler, sign)
        n == Len(a) * sampler.nwalkers
        flat == [i \in 1..n |->
                    a[((i - 1) \div sampler.nwalkers) + 1][((i - 1) % sampler.nwalkers) + 1]]
    IN IF n = 0 THEN {1}
       ELSE {CHOOSE i \in 1..n : /\ \A j \in 1..n : flat[j] <= flat[i]
                                 /\ \A j \in 1..(i - 1) : flat[j] < flat[i]}

\* Lines 1290-1302: params[n].value = median of column i (to a whole unit)
\* and parbest[n].value = pos_i[i], for the names of vn from index i on.
RECURSIVE Summary(_, _, _, _, _)
Summary(P, vn, chain, best, i) ==
    IF i > Len(vn) THEN P
    ELSE LET j == IndexOf(P, vn[i])
             v == IF best = 0 THEN Median([r \in 1..Len(chain) |-> chain[r].x[i]])
                  ELSE chain[best].x[i]
         IN Summary([P EXCEPT !.par[j] = [SetValue(@, v) EXCEPT
                                             !.stderr = [kind |-> "finite", v |-> 0]]],
                    vn, chain, best, i + 1)

\* Lines 1280-1326: the result object.
ChainResult(work, args, lc, chain, best, fit) ==
    [set |-> TRUE, var_names |-> work.vn, init_vals |-> work.vv, chain |-> chain,
     lnprob |-> [r \in 1..Len(chain) |-> chain[r].lp], bestfit |-> fit,
     params |-> Refresh(Summary(work.params, work.vn, chain, 0, 1)),
     params_best |-> Refresh(Summary(work.params, work.vn, chain, best, 1)),
     nvarys |-> Len(work.vv), nfev |-> args.nwalkers * args.steps * args.thin,
     ndata |-> lc.n, nfree |-> lc.n - Len(work.vv),
     argmax |-> best, lnsign |-> 0,
     used |-> [sampler |-> work.log_posterior_func, bestfit |-> BestFitFunc(work.gp),
               model |-> "None"]]

\* What model.eval returns within run_mcmc in the calls tried (a prediction
\* that is not finite makes a proposal rejected, as the move 0 does).
RunFitClasses == {"finite"}

\* The bounds of the calls tried.
MaxSteps == 2
MaxBurn == 2
MaxThin == 2
MaxZ == 1
DrawCap == 3

Float(v) == KwValue("float", v, 0, << >>, NoParameter)

\* The fits before the call: T_0, W, b and c fixed, D free (0.01 within
\* [0, 0.5]) or fixed at 0.3.
SamplerFits ==
    {[NoKeywords EXCEPT !.T_0 = Float(150), !.W = Float(1500), !.b = Float(500),
                        !.c = Float(1000), !.D = d] : d \in {None, Float(300000)}}

\* emcee_sampler(log_sigma=-10.0, ...): one free parameter, D.
OneFree(steps, nwalkers, burn, thin, init_scale) ==
    SamplerArgs(steps, nwalkers, burn, thin, init_scale,
                [SamplerDefaults EXCEPT !.log_sigma = Float(-10)])

\* params[name] with the stderr and the user_data given.
WithStderr(P, name, stderr, user_data) ==
    [P EXCEPT !.par[IndexOf(P, name)] =
                 [@ EXCEPT !.stderr = stderr, !.user_data = user_data]]

\* A parameter set for params=: that of lmfit_transit() with, on its free
\* parameters, a finite stderr and a prior (T_0), a stderr that is not
\* finite and a prior (D), no stderr and a prior (W), no stderr and no
\* prior (b), a stderr that is not finite and no prior (c).
ScatterParams ==
    WithStderr(
      WithStderr(
        WithStderr(
          WithStderr(TransitParams(SomeLc(FALSE), NoKeywords).P,
                     "T_0", [kind |-> "finite", v |-> 5], UFloat(150, 20)),
          "D", [kind |-> "inf", v |-> 0], UFloat(10000, 1000)),
        "W", NoStderr, UFloat(1500, 100)),
      "c", [kind |-> "nan", v |-> 0], NoPrior)

\* A parameter set for params=: that of lmfit_transit() with every
\* parameter fixed.
FixedParams ==
    [TransitParams(SomeLc(FALSE), NoKeywords).P EXCEPT
        !.par = [j \in DOMAIN @ |-> [@[j] EXCEPT !.vary = FALSE]]]

\* A parameter set for params=: the one an earlier call with add_shoterm
\* worked on, with log_S0, log_omega0, log_Q, log_sigma and sigma_w; only
\* log_sigma is free.
ShoParams ==
    SamplerParams(TransitParams(SomeLc(FALSE),
                                [NoKeywords EXCEPT !.T_0 = Float(150), !.D = Float(10000),
                                                   !.W = Float(1500), !.b = Float(500),
                                                   !.c = Float(1000)]).P,
                  [SamplerDefaults EXCEPT !.add_shoterm = TRUE, !.log_S0 = Float(-12),
                                          !.log_omega0 = Float(30)]).P

\* The calls tried.  With log_sigma fixed: every steps, every burn and
\* every thin with two walkers, steps=2 with thin=2, three walkers, and one
\* call with init_scale=1 (the others have the default, 1e-3).  With the
\* defaults (D and log_sigma free): two walkers, and four with init_scale=0.
\* With add_shoterm: two walkers.  With params=: ScatterParams with
\* init_scale=0, FixedParams with log_sigma fixed, ShoParams without
\* add_shoterm, the parameter set of the least-squares result itself with
\* log_sigma fixed, and ShoParams with add_shoterm and all four keywords.
SamplerCalls ==
    {OneFree(st, 2, 1, 1, 1) : st \in 0..MaxSteps}
    \cup {OneFree(1, 2, bu, 1, 1) : bu \in 0..MaxBurn}
    \cup {OneFree(1, 2, 1, th, 1) : th \in 1..MaxThin}
    \cup {OneFree(2, 2, 1, 2, 1), OneFree(1, 3, 1, 1, 1), OneFree(1, 2, 1, 1, 1000)}
    \cup {SamplerArgs(1, 2, 1, 1, 1, SamplerDefaults),
          SamplerArgs(1, 4, 1, 1, 0, SamplerDefaults)}
    \cup {SamplerArgs(1, 2, 1, 1, 1, [SamplerDefaults EXCEPT !.add_shoterm = TRUE])}
    \cup {SamplerArgs(1, 2, 1, 1, 0, [SamplerDefaults EXCEPT !.params = ScatterParams]),
          SamplerArgs(1, 2, 1, 1, 1, [SamplerDefaults EXCEPT !.params = FixedParams,
                                                             !.log_sigma = Float(-10)]),
          SamplerArgs(1, 2, 1, 1, 1, [SamplerDefaults EXCEPT !.params = ShoParams]),
          SamplerArgs(1, 2, 1, 1, 1, [SamplerDefaults EXCEPT !.own = TRUE,
                                                             !.log_sigma = Float(-10)]),
          SamplerArgs(1, 2, 1, 1, 1, [SamplerDefaults EXCEPT
                                         !.params = ShoParams, !.add_shoterm = TRUE,
                                         !.log_S0 = Float(-20), !.log_omega0 = Float(10),
                                         !.log_Q = Float(0), !.log_sigma = Float(-5)])}

EmIdle ==
    /\ emPc = "idle" /\ emArgs = NoArgs /\ emWork = NoWork
    /\ emPos = << >> /\ emDraws = 0 /\ emSampler = NoSampler

\* A Dataset object without a light curve, without a fit, or after
\* lmfit_transit.
EmInit ==
    /\ dataset \in {Dataset(FALSE, SomeLc(FALSE), FALSE), Dataset(TRUE, SomeLc(FALSE), FALSE)}
                   \cup {lmfit_transit(Dataset(TRUE, SomeLc(nan), FALSE), kw, 0).self :
                            nan \in BOOLEAN, kw \in SamplerFits}
    /\ raised = ""
    /\ EmIdle

\* Lines 1141-1253: the call up to the loop, for a call of the set calls.
EmceeCall(calls) ==
    /\ emPc = "idle"
    /\ \E args \in calls :
          \E e \in {SamplerEnter(dataset, args)} :
             /\ emArgs' = args
             /\ emWork' = e.work
             /\ raised' = e.err
             /\ emPc' = IF e.err # "" THEN "raised" ELSE NextPhase("idle")
             /\ dataset' = AfterEnter(dataset, args)
    /\ UNCHANGED <<emPos, emDraws, emSampler>>

EmceeEnter == EmceeCall(SamplerCalls)

\* Lines 1260-1264: one pass of the while loop; a draw that is not -inf ends
\* the loop for this walker, and the last walker ends the for loop (line
\* 1266 follows).
DrawWalker ==
    /\ emPc = "init"
    /\ \E pos_i \in PosDraws(emWork.vv, emWork.vs, MaxZ, emArgs.init_scale),
          fit \in FitClasses :
          \E lnlike_i \in {LogProb(pos_i, fit)} :
          LET last == Len(emPos) + 1 = emArgs.nwalkers
          IN /\ emWork' = [emWork EXCEPT !.gp = AfterCall(lnlike_i.gp)]
             /\ IF lnlike_i.ret = "neginf"
                THEN /\ emDraws' = IF emDraws < DrawCap THEN emDraws + 1 ELSE DrawCap
                     /\ UNCHANGED <<emPos, emPc, emSampler>>
                ELSE /\ emDraws' = 0
                     /\ emPos' = Append(emPos, Walker(pos_i, lnlike_i.ret))
                     /\ emPc' = IF last THEN NextPhase("init") ELSE "init"
                     /\ emSampler' = IF last
                                     THEN EnsembleSampler(emArgs.nwalkers, Len(emWork.vv))
                                     ELSE emSampler
    /\ UNCHANGED <<dataset, raised, emArgs>>

\* The start of sampler.run_mcmc(pos, burn, store=False, ...), line 1271;
\* with burn = 0 it returns None, which line 1271 cannot unpack.
BurnStart ==
    /\ emPc = "burn" /\ emSampler.coords = << >>
    /\ \E fit \in RunFitClasses :
          \E st \in {InitialState(emPos, fit)} :
          LET err == IF \E k \in 1..Len(st) : st[k].lp = "nan"
                     THEN "ValueError: Probability function returned NaN"
                     ELSE IF emArgs.burn = 0
                     THEN "TypeError: cannot unpack non-iterable NoneType object"
                     ELSE ""
          IN /\ raised' = err
             /\ emPc' = IF err # "" THEN "raised" ELSE "burn"
             /\ emSampler' = IF err # "" THEN emSampler
                             ELSE [emSampler EXCEPT !.coords = st, !.inner = 0]
    /\ UNCHANGED <<dataset, emArgs, emWork, emPos, emDraws>>

\* One iteration of the burn-in; after the last, pos is the state returned
\* and sampler.reset() (line 1273) empties the chain.
BurnStep ==
    /\ emPc = "burn" /\ emSampler.coords # << >>
    /\ \E fit \in RunFitClasses, mv \in Moves(emArgs.nwalkers, emSampler.inner) :
          \E it \in {Iterate(emSampler.coords, mv, fit)} :
          LET err == IF emSampler.nwalkers < 2 * emSampler.ndim
                     THEN "RuntimeError: fewer walkers than twice the number of dimensions"
                     ELSE IF it.nan
                     THEN "ValueError: Probability function returned NaN"
                     ELSE ""
              inner == emSampler.inner + 1
              last == inner = emArgs.burn
          IN /\ raised' = err
             /\ IF err # ""
                THEN emPc' = "raised" /\ UNCHANGED <<emSampler, emPos>>
                ELSE /\ emPc' = IF last THEN NextPhase("burn") ELSE "burn"
                     /\ emPos' = IF last THEN it.coords ELSE emPos
                     /\ emSampler' =
                           [emSampler EXCEPT
                              !.coords = IF last THEN << >> ELSE it.coords,
                              !.inner = IF last THEN 0 ELSE inner,
                              !.chain = IF last THEN << >>
                                        ELSE Store(FALSE, @, it.coords, "burn", inner),
                              !.burnt = @ + 1,
                              !.burnEnd = IF last THEN it.coords ELSE @]
    /\ UNCHANGED <<dataset, emArgs, emWork, emDraws>>

\* The start of sampler.run_mcmc(pos, steps, thin_by=thin, ...), line 1277;
\* with steps = 0 nothing is stored and get_chain (line 1280) raises.
ProductionStart ==
    /\ emPc = "production" /\ emSampler.coords = << >>
    /\ \E fit \in RunFitClasses :
          \E st \in {InitialState(emPos, fit)} :
          LET err == IF \E k \in 1..Len(st) : st[k].lp = "nan"
                     THEN "ValueError: Probability function returned NaN"
                     ELSE IF emArgs.steps = 0
                     THEN "AttributeError: you must run the sampler with 'store == True' before accessing the results"
                     ELSE ""
          IN /\ raised' = err
             /\ emPc' = IF err # "" THEN "raised" ELSE "production"
             /\ emSampler' = IF err # "" THEN emSampler
                             ELSE [emSampler EXCEPT !.coords = st, !.inner = 0,
                                                    !.prodStart = emPos]
    /\ UNCHANGED <<dataset, emArgs, emWork, emPos, emDraws>>

\* One iteration of the production run: steps*thin iterations, one stored
\* step after every thin of them.
ProductionStep ==
    /\ emPc = "production" /\ emSampler.coords # << >>
    /\ \E fit \in RunFitClasses, mv \in Moves(emArgs.nwalkers, emSampler.inner) :
          \E it \in {Iterate(emSampler.coords, mv, fit)} :
          LET err == IF emSampler.nwalkers < 2 * emSampler.ndim
                     THEN "RuntimeError: fewer walkers than twice the number of dimensions"
                     ELSE IF it.nan
                     THEN "ValueError: Probability function returned NaN"
                     ELSE ""
              inner == emSampler.inner + 1
              last == inner = emArgs.steps * emArgs.thin
          IN /\ raised' = err
             /\ IF err # ""
                THEN emPc' = "raised" /\ UNCHANGED emSampler
                ELSE /\ emPc' = IF last THEN NextPhase("production") ELSE "production"
                     /\ emSampler' =
                           [emSampler EXCEPT
                              !.coords = IF last THEN << >> ELSE it.coords,
                              !.inner = IF last THEN 0 ELSE inner,
                              !.chain = Store(StoresAfter(inner, emArgs.thin), @,
                                              it.coords, "production",
                                              inner \div emArgs.thin)]
    /\ UNCHANGED <<dataset, emArgs, emWork, emPos, emDraws>>

\* Lines 1280-1331: the flattened chain, the best row, the fit there, the
\* result object and the attributes of self.
Summarise ==
    /\ emPc = "summary"
    /\ \E sign \in LnSigns, fit \in FitClasses :
          \E best \in ArgMax(emSampler, sign) :
          \E r \in {BestFit(FlatChain(emSampler)[best], fit)} :
          \E result \in {ChainResult(emWork, emArgs, dataset.lc,
                                     emSampler.chain, best, Returns(r))} :
          dataset' = [dataset EXCEPT
                         !.emcee = [result EXCEPT !.lnsign = sign,
                                                  !.used.model = dataset.model],
                         !.lmfit.params = IF emArgs.kw.own THEN result.params ELSE @,
                         !.hasSampler = TRUE,
                         !.lastfit = "emcee",
                         !.gp = emWork.gp]
    /\ emPc' = NextPhase("summary")
    /\ UNCHANGED <<raised, emArgs, emWork, emPos, emDraws, emSampler>>


(***************************************************************************)
(* A Dataset object over its life: get_lightcurve, add_glint, the two      *)
(* least-squares fits and emcee_sampler, called in any order.              *)
(***************************************************************************)
\* get_lightcurve(aperture), lines 577-578 and 652.
get_lightcurve(self, aperture) ==
    IF aperture \notin {"OPTIMAL", "RSUP", "RINF", "DEFAULT"}
    THEN Outcome(self, "ValueError: Invalid/missing aperture name")
    ELSE Outcome([self EXCEPT !.hasLc = TRUE, !.lc = SomeLc(FALSE)], "")

\* add_glint(fit_flux=...), lines 878-883, 898-903 and 943-944: without
\* fit_flux it reads __lastfit__, which no fit has set yet.
add_glint(self, fit_flux) ==
    IF ~self.hasLc
    THEN Outcome(self, "AttributeError: Use get_lightcurve() to load data first.")
    ELSE IF ~fit_flux /\ self.lastfit = "None"
    THEN Outcome(self, "AttributeError: 'Dataset' object has no attribute '__lastfit__'")
    ELSE Outcome([self EXCEPT !.glint = TRUE], "")

\* The fits completed last: the kind of the last one, and the result each
\* kind returned last.
Done(kind, lmfit, emcee) == [kind |-> kind, lmfit |-> lmfit, emcee |-> emcee]

LifeIdle ==
    /\ called = "" /\ callKw = NoKeywords
    /\ before = Dataset(FALSE, SomeLc(FALSE), FALSE)
    /\ done = Done("None", NoResult, NoChain)

\* A new Dataset object.
LifeInit ==
    /\ dataset = Dataset(FALSE, SomeLc(FALSE), FALSE) /\ raised = ""
    /\ EmIdle /\ LifeIdle

\* The keyword arguments of the fits: D free, alone or with glint_scale.
LifeKeywords ==
    {[NoKeywords EXCEPT !.T_0 = Float(150), !.W = Float(1500), !.b = Float(500),
                        !.c = Float(1000), !.glint_scale = g] :
        g \in {None, Float(1000)}}

\* The calls of emcee_sampler: two walkers, one step after one of burn-in.
LifeCalls == {OneFree(1, 2, 1, 1, 0)}

\* A call that is over when it returns: what it left, and the history.
Call(op, kw, o) ==
    /\ dataset' = o.self
    /\ raised' = o.err
    /\ called' = op /\ callKw' = kw /\ before' = dataset
    /\ done' = IF o.err = "" /\ op \in {"lmfit_transit", "lmfit_eclipse"}
               THEN Done("lmfit", o.self.lmfit, done.emcee) ELSE done
    /\ UNCHANGED emVars

GetLightcurve ==
    /\ emPc = "idle"
    /\ \E aperture \in {"None", "OPTIMAL"} :
          Call("get_lightcurve", NoKeywords, get_lightcurve(dataset, aperture))

AddGlint ==
    /\ emPc = "idle"
    /\ \E fit_flux \in BOOLEAN :
          Call("add_glint", NoKeywords, add_glint(dataset, fit_flux))

\* mask_data(mask) (lines 2216-2219) and clip_outliers() (lines 2238-2247)
\* by what the fits read of the light curve: removed points are gone from
\* every array of self.lc.  Neither writes anything else of self.  The fits
\* tried are given T_0, so that they read the number of points only.
Shorter(self, removed) ==
    IF ~self.hasLc
    THEN Outcome(self, "AttributeError: 'Dataset' object has no attribute 'lc'")
    ELSE Outcome([self EXCEPT !.lc.n = @ - removed], "")

\* The numbers of points the calls tried remove: one of the light curve as
\* loaded, none of a light curve that has lost a point.
Removable(self) == IF self.lc.n = LcPoints THEN {1} ELSE {0}

LifeMaskData ==
    /\ emPc = "idle"
    /\ \E removed \in Removable(dataset) :
          Call("mask_data", NoKeywords, Shorter(dataset, removed))

LifeClipOutliers ==
    /\ emPc = "idle"
    /\ \E removed \in Removable(dataset) :
          Call("clip_outliers", NoKeywords, Shorter(dataset, removed))

LifeTransit ==
    /\ emPc = "idle"
    /\ \E kw \in LifeKeywords :
          Call("lmfit_transit", kw, lmfit_transit(dataset, kw, 0))

LifeEclipse ==
    /\ emPc = "idle"
    /\ \E kw \in LifeKeywords :
          Call("lmfit_eclipse", kw, lmfit_eclipse(dataset, kw, 0))

\* emcee_sampler is called.
LifeSampler ==
    /\ EmceeCall(LifeCalls)
    /\ called' = "emcee_sampler" /\ callKw' = NoKeywords /\ before' = dataset
    /\ UNCHANGED done

\* emcee_sampler returns its result.
LifeSummarise ==
    /\ Summarise
    /\ done' = Done("emcee", done.lmfit, dataset'.emcee)
    /\ UNCHANGED <<called, callKw, before>>

\* The call of emcee_sampler is over (it returned or raised): its locals
\* are gone.
Return ==
    /\ emPc \in {"done", "raised"}
    /\ emPc' = "idle" /\ emArgs' = NoArgs /\ emWork' = NoWork
    /\ emPos' = << >> /\ emDraws' = 0 /\ emSampler' = NoSampler
    /\ UNCHANGED <<dataVars, lifeVars>>

(***************************************************************************)
(* One pass over the walkers with _log_posterior_SHOTerm: every call sets  *)
(* the four kernel parameters of the one GP object of args (lines 199-206) *)
(* and then asks it for the likelihood (line 207).  The calls are made by  *)
(* the loop of lines 1257-1264 and by the EnsembleSampler of line 1266,    *)
(* built without pool=, which maps the function over the walkers with the  *)
(* builtin map.                                                            *)
(***************************************************************************)
MapWalkers == 2

\* The kernel parameters, in the order lines 199-206 set them.
KernelNames == <<"log_S0", "log_Q", "log_omega0", "log_sigma">>

Kernel(log_S0, log_Q, log_omega0, log_sigma) ==
    [log_S0 |-> log_S0, log_Q |-> log_Q, log_omega0 |-> log_omega0,
     log_sigma |-> log_sigma]

\* The kernel of lines 1238-1241, on the values of the fit.
FitKernel == Kernel(-12, -347, 30, -10)

\* No likelihood computed.
NoKernel == Kernel(0, 0, 0, 0)

\* The kernel parameters of the proposals tried (log_Q is fixed by default).
Proposals ==
    {Kernel(s0, -347, w0, sg) : s0 \in {-12, -11}, w0 \in {30, 31}, sg \in {-10, -9}}

\* gp.set_parameter(name, value).
set_parameter(gp, name, value) == [gp EXCEPT ![name] = value]

\* Where the evaluation of a walker is: 0 not begun, n in 1..4 after the
\* n-th set_parameter, Finished when it has returned.
Finished == Len(KernelNames) + 1

\* Mutant: the walkers are evaluated at the same time, as with pool=.
map_pool(pc) == {w \in 1..Len(pc) : pc[w] < Finished}

\* The builtin map: the function is called on one walker after the other,
\* each call returning before the next begins.
map_serial(pc) ==
    {w \in 1..Len(pc) : pc[w] < Finished /\ \A v \in 1..(w - 1) : pc[v] = Finished}

MapIdle ==
    /\ mapGp = FitKernel
    /\ mapPos = << >>
    /\ mapPc = << >>
    /\ mapUsed = << >>

MapInit ==
    /\ mapGp = FitKernel
    /\ mapPos \in [1..MapWalkers -> Proposals]
    /\ mapPc = [w \in 1..MapWalkers |-> 0]
    /\ mapUsed = [w \in 1..MapWalkers |-> NoKernel]

\* Lines 175-196: a return of -np.inf before the GP object is touched.
MapReject ==
    \E w \in map_serial(mapPc) :
       /\ mapPc[w] = 0
       /\ mapPc' = [mapPc EXCEPT ![w] = Finished]
       /\ UNCHANGED <<mapGp, mapPos, mapUsed>>

\* Lines 199-206: one of the four gp.set_parameter calls.
MapSetParameter ==
    \E w \in map_serial(mapPc) :
       /\ mapPc[w] < Len(KernelNames)
       /\ mapGp' = set_parameter(mapGp, KernelNames[mapPc[w] + 1],
                                 mapPos[w][KernelNames[mapPc[w] + 1]])
       /\ mapPc' = [mapPc EXCEPT ![w] = @ + 1]
       /\ UNCHANGED <<mapPos, mapUsed>>

\* Line 207: gp.log_likelihood(resid), on the kernel parameters the GP
\* object holds.
MapLogLikelihood ==
    \E w \in map_serial(mapPc) :
       /\ mapPc[w] = Len(KernelNames)
       /\ mapUsed' = [mapUsed EXCEPT ![w] = mapGp]
       /\ mapPc' = [mapPc EXCEPT ![w] = Finished]
       /\ UNCHANGED <<mapGp, mapPos>>

(***************************************************************************)
(* The arrays of self.lc, dataset.py:603-657, 2217-2220 and 2244-2247.     *)
(* A row of the table is its EVENT flag and its FLUX; an array of self.lc  *)
(* is the sequence of the numbers of the rows its entries were read from.  *)
(***************************************************************************)
TableRows == 3

TableRow(EVENT, FLUX) == [EVENT |-> EVENT, FLUX |-> FLUX]

\* The tables tried.
Tables == [1..TableRows -> {TableRow(e, f) : e \in {0, 1, 100}, f \in {10, 30}}]

\* The keys of self.lc that hold an np.ndarray.
ArrayKeys == {"time", "flux", "flux_err", "xoff", "yoff", "bg", "contam",
              "roll_angle", "centroid_x", "centroid_y"}

\* The arrays lines 624-633 index again.
Rejected == ArrayKeys \ {"centroid_x", "centroid_y"}

\* mask.nonzero(): the places where a boolean array is true, in order.
RECURSIVE NonzeroFrom(_, _)
NonzeroFrom(mask, i) ==
    IF i > Len(mask) THEN << >>
    ELSE IF mask[i] THEN <<i>> \o NonzeroFrom(mask, i + 1)
    ELSE NonzeroFrom(mask, i + 1)

Nonzero(mask) == NonzeroFrom(mask, 1)

\* a[index], index an array of places.
Take(a, index) == [i \in 1..Len(index) |-> a[index[i]]]

\* a[mask], mask a boolean array.
BoolIndex(a, mask) == Take(a, Nonzero(mask))

\* Every array indexed with the same boolean array.
IndexAll(arr, mask) == [k \in ArrayKeys |-> BoolIndex(arr[k], mask)]

\* The k-th smallest of a non-empty array.
KthSmallest(a, k) ==
    CHOOSE v \in {a[i] : i \in 1..Len(a)} :
       /\ Cardinality({i \in 1..Len(a) : a[i] < v}) < k
       /\ Cardinality({i \in 1..Len(a) : a[i] <= v}) >= k

\* 2*np.nanmedian(a).
TwiceMedian(a) ==
    IF Len(a) % 2 = 1 THEN 2 * KthSmallest(a, (Len(a) + 1) \div 2)
    ELSE KthSmallest(a, Len(a) \div 2) + KthSmallest(a, Len(a) \div 2 + 1)

\* Line 624: C_cut = 2*np.nanmedian(flux) - np.nanmin(flux).
C_cut(flux) == TwiceMedian(flux) - KthSmallest(flux, 1)

AllRows(table) == [i \in 1..Len(table) |-> i]

\* No array behind any key.
NoArrays == [k \in ArrayKeys |-> << >>]

\* The mask_data calls counted.
MaxMasks == 2

\* self.lc, whether it was loaded with reject_highpoints, and
\* self.lc_unmask (its arrays); and of its history the number of mask_data
\* calls since it was loaded (up to MaxMasks) and the arrays as they were
\* before the first of them.
Lc(loaded, reject_highpoints, arr) ==
    [loaded |-> loaded, reject_highpoints |-> reject_highpoints, arr |-> arr,
     lc_unmask |-> NoArrays, masked |-> 0, original |-> NoArrays]

\* A Dataset object without self.lc.
NoLc == Lc(FALSE, FALSE, NoArrays)

\* Lines 623-657: ok is the places in flux below C_cut; the arrays made at
\* lines 604-615 are indexed with it, and so is the table itself for
\* centroid_x and centroid_y.
RejectHighpoints(table, rows, ok) ==
    Lc(TRUE, TRUE,
       [k \in ArrayKeys |-> IF k \in Rejected THEN Take(rows, ok)
                            ELSE Take(AllRows(table), ok)])

\* Lines 603-657 on the table, self the object before the call.  bjd[0]
\* raises IndexError when no row has EVENT 0 or 100: self.lc is not
\* assigned.
LoadTable(self, table, ok, reject_highpoints) ==
    IF Nonzero(ok) = << >> THEN self
    ELSE IF reject_highpoints
    THEN RejectHighpoints(table, Nonzero(ok),
                          Nonzero([i \in 1..Len(Nonzero(ok)) |->
                                      table[Nonzero(ok)[i]].FLUX
                                         < C_cut(Take([j \in 1..Len(table) |-> table[j].FLUX],
                                                      Nonzero(ok)))]))
    ELSE Lc(TRUE, FALSE, [k \in ArrayKeys |-> BoolIndex(AllRows(table), ok)])

\* Line 603: ok = (table['EVENT'] == 0) | (table['EVENT'] == 100).
EventOk(table) == [i \in 1..Len(table) |-> table[i].EVENT = 0 \/ table[i].EVENT = 100]

\* Lines 2216-2220: self.lc_unmask is a copy of self.lc, whose every
\* np.ndarray is then indexed with ~mask.
mask_data(self, mask) ==
    [self EXCEPT !.arr = IndexAll(@, [i \in 1..Len(mask) |-> ~mask[i]]),
                 !.lc_unmask = self.arr]

\* Lines 2244-2247: every np.ndarray of self.lc indexed with ok.
clip_outliers(self, ok) == [self EXCEPT !.arr = IndexAll(@, ok)]

TabIdle ==
    /\ srcTable = << >>
    /\ tabLc = NoLc

TabInit ==
    /\ srcTable \in Tables
    /\ tabLc = NoLc

TabGetLightcurve ==
    /\ \E reject_highpoints \in BOOLEAN :
          tabLc' = [LoadTable(tabLc, srcTable, EventOk(srcTable), reject_highpoints)
                       EXCEPT !.lc_unmask = tabLc.lc_unmask]
    /\ UNCHANGED srcTable

\* mask is a boolean array as long as the arrays (self.lc is there: without
\* it the call raises AttributeError and changes nothing).
TabMaskData ==
    /\ tabLc.loaded
    /\ \E mask \in [1..Len(tabLc.arr.time) -> BOOLEAN] :
          tabLc' = [mask_data(tabLc, mask) EXCEPT
                       !.masked = IF @ < MaxMasks THEN @ + 1 ELSE @,
                       !.original = IF tabLc.masked = 0 THEN tabLc.arr ELSE @]
    /\ UNCHANGED srcTable

\* ok = d < clip*mad depends on the flux through medfilt, code outside this
\* file: any boolean array as long as flux.
TabClipOutliers ==
    /\ tabLc.loaded
    /\ \E ok \in [1..Len(tabLc.arr.flux) -> BOOLEAN] :
          tabLc' = clip_outliers(tabLc, ok)
    /\ UNCHANGED srcTable

(***************************************************************************)
(* The constructor and get_lightcurve on the cache directory,              *)
(* dataset.py:284-344 and 572-601.  The archive the server gives for a     *)
(* file_key is told from an earlier one by its version; a file of the      *)
(* cache directory is the version it was made from, 0 when it is not       *)
(* there.                                                                  *)
(***************************************************************************)
\* The versions of the archive over time.
MaxVersion == 3

Apertures == {"OPTIMAL", "RSUP"}

\* The cache directory: <file_key>.tgz, <file_key>.lis and the extracted
\* <file_key>-<aperture>.fits.
Disk(tgz, lis, fits) == [tgz |-> tgz, lis |-> lis, fits |-> fits]

EmptyDisk == Disk(0, 0, [a \in Apertures |-> 0])

\* The Dataset object: whether it is constructed, force_download, whether
\* the constructor found the archive in the cache and whether it called
\* Cheops.download, the version it downloaded, and the versions self.list,
\* the header read by the constructor and the table read by get_lightcurve
\* come from.
CacheObject(made, force_download, found, downloaded, fresh, list, hdr, lc) ==
    [made |-> made, force_download |-> force_download, found |-> found,
     downloaded |-> downloaded, fresh |-> fresh, list |-> list, hdr |-> hdr,
     lc |-> lc]

NoObject == CacheObject(FALSE, FALSE, FALSE, FALSE, 0, 0, 0, 0)

\* Lines 299-308: the archive on disk after the test and the download.
Tgz(disk, server, force_download) ==
    IF disk.tgz # 0 /\ ~force_download THEN disk.tgz ELSE server

\* Lines 311-320: self.list, read from the .lis file or made from the
\* archive (and then written to the .lis file).
FileList(disk, tgz, force_download) ==
    IF disk.lis # 0 /\ ~force_download THEN disk.lis ELSE tgz

\* Lines 324-344: hdr, read from the extracted OPTIMAL file when it is there
\* (line 327), from the archive otherwise (and the file is then written).
Header(disk, tgz) ==
    IF disk.fits["OPTIMAL"] # 0 THEN disk.fits["OPTIMAL"] ELSE tgz

\* Dataset(file_key, force_download=...): the object and the cache
\* directory it leaves.
Dataset_init(disk, server, force_download) ==
    LET tgz == Tgz(disk, server, force_download)
        list == FileList(disk, tgz, force_download)
        hdr == Header(disk, tgz)
    IN [self |-> CacheObject(TRUE, force_download, disk.tgz # 0,
                             ~(disk.tgz # 0 /\ ~force_download),
                             IF disk.tgz # 0 /\ ~force_download THEN 0 ELSE server,
                             list, hdr, 0),
        disk |-> Disk(tgz, list, [disk.fits EXCEPT !["OPTIMAL"] = hdr])]

\* Lines 580-601 of get_lightcurve(aperture): table, read from the
\* extracted file when it is there (line 582), from the archive of
\* self.tgzfile otherwise (and the file is then written).
ReadTable(disk, aperture) ==
    IF disk.fits[aperture] # 0 THEN disk.fits[aperture] ELSE disk.tgz

CacheIdle ==
    /\ archive = 0
    /\ cacheDisk = EmptyDisk
    /\ cacheSelf = NoObject

\* An empty cache directory and the first version of the archive.
CacheInit ==
    /\ archive = 1
    /\ cacheDisk = EmptyDisk
    /\ cacheSelf = NoObject

\* The archive is made again (a new processing of the data).
NewArchive ==
    /\ archive < MaxVersion
    /\ archive' = archive + 1
    /\ UNCHANGED <<cacheDisk, cacheSelf>>

\* A Dataset object is constructed.
Construct ==
    /\ \E force_download \in BOOLEAN :
          \E o \in {Dataset_init(cacheDisk, archive, force_download)} :
             /\ cacheSelf' = o.self
             /\ cacheDisk' = o.disk
    /\ UNCHANGED archive

\* get_lightcurve(aperture) on the object.
CacheGetLightcurve ==
    /\ cacheSelf.made
    /\ \E aperture \in Apertures :
          \E table \in {ReadTable(cacheDisk, aperture)} :
             /\ cacheSelf' = [cacheSelf EXCEPT !.lc = table]
             /\ cacheDisk' = [cacheDisk EXCEPT !.fits[aperture] = table]
    /\ UNCHANGED archive

(***************************************************************************)
(* Specifications                                                          *)
(***************************************************************************)
\* _log_prior on every input of PriorDs x PriorWs x Priorbs.
PriorNext == LogPriorCall /\ UNCHANGED <<kwVars, postVars, dataVars, emVars, lifeVars, mapVars, tabVars, cacheVars>>
PriorStart == PriorInit /\ KwIdle /\ PostIdle /\ DataIdle /\ EmIdle /\ LifeIdle /\ MapIdle /\ TabIdle /\ CacheIdle
SpecPrior == PriorStart /\ [][PriorNext]_vars

\* _kw_to_Parameter on every keyword argument of KwArgs.
KwNext == KwCall /\ UNCHANGED <<priorVars, postVars, dataVars, emVars, lifeVars, mapVars, tabVars, cacheVars>>
KwStart == KwInit /\ PriorIdle /\ PostIdle /\ DataIdle /\ EmIdle /\ LifeIdle /\ MapIdle /\ TabIdle /\ CacheIdle
SpecKw == KwStart /\ [][KwNext]_vars

\* The posterior functions on a vector and on the vector moved out of bounds.
PostNext ==
    \/ PostEvalBase /\ UNCHANGED <<priorVars, kwVars, dataVars, emVars, lifeVars, mapVars, tabVars, cacheVars>>
    \/ PostEvalMoved /\ UNCHANGED <<priorVars, kwVars, dataVars, emVars, lifeVars, mapVars, tabVars, cacheVars>>
    \/ PostEvalFit /\ UNCHANGED <<priorVars, kwVars, dataVars, emVars, lifeVars, mapVars, tabVars, cacheVars>>
PostStart == PostInit /\ PriorIdle /\ KwIdle /\ DataIdle /\ EmIdle /\ LifeIdle /\ MapIdle /\ TabIdle /\ CacheIdle
SpecPost == PostStart /\ [][PostNext]_vars

\* One call of lmfit_transit or lmfit_eclipse on a new Dataset object.
FitNext ==
    \/ LmfitTransit /\ UNCHANGED <<priorVars, kwVars, postVars, emVars, lifeVars, mapVars, tabVars, cacheVars>>
    \/ LmfitEclipse /\ UNCHANGED <<priorVars, kwVars, postVars, emVars, lifeVars, mapVars, tabVars, cacheVars>>
FitStart == DataInit /\ PriorIdle /\ KwIdle /\ PostIdle /\ EmIdle /\ LifeIdle /\ MapIdle /\ TabIdle /\ CacheIdle
SpecFit == FitStart /\ [][FitNext]_vars

\* One call of emcee_sampler.
SamplerNext ==
    \/ EmceeEnter /\ UNCHANGED <<priorVars, kwVars, postVars, lifeVars, mapVars, tabVars, cacheVars>>
    \/ DrawWalker /\ UNCHANGED <<priorVars, kwVars, postVars, lifeVars, mapVars, tabVars, cacheVars>>
    \/ BurnStart /\ UNCHANGED <<priorVars, kwVars, postVars, lifeVars, mapVars, tabVars, cacheVars>>
    \/ BurnStep /\ UNCHANGED <<priorVars, kwVars, postVars, lifeVars, mapVars, tabVars, cacheVars>>
    \/ ProductionStart /\ UNCHANGED <<priorVars, kwVars, postVars, lifeVars, mapVars, tabVars, cacheVars>>
    \/ ProductionStep /\ UNCHANGED <<priorVars, kwVars, postVars, lifeVars, mapVars, tabVars, cacheVars>>
    \/ Summarise /\ UNCHANGED <<priorVars, kwVars, postVars, lifeVars, mapVars, tabVars, cacheVars>>
SamplerStart == EmInit /\ PriorIdle /\ KwIdle /\ PostIdle /\ LifeIdle /\ MapIdle /\ TabIdle /\ CacheIdle
SpecSampler == SamplerStart /\ [][SamplerNext]_vars

\* A Dataset object over its life.
LifeNext ==
    \/ GetLightcurve /\ UNCHANGED <<priorVars, kwVars, postVars, mapVars, tabVars, cacheVars>>
    \/ AddGlint /\ UNCHANGED <<priorVars, kwVars, postVars, mapVars, tabVars, cacheVars>>
    \/ LifeMaskData /\ UNCHANGED <<priorVars, kwVars, postVars, mapVars, tabVars, cacheVars>>
    \/ LifeClipOutliers /\ UNCHANGED <<priorVars, kwVars, postVars, mapVars, tabVars, cacheVars>>
    \/ LifeTransit /\ UNCHANGED <<priorVars, kwVars, postVars, mapVars, tabVars, cacheVars>>
    \/ LifeEclipse /\ UNCHANGED <<priorVars, kwVars, postVars, mapVars, tabVars, cacheVars>>
    \/ LifeSampler /\ UNCHANGED <<priorVars, kwVars, postVars, mapVars, tabVars, cacheVars>>
    \/ DrawWalker /\ UNCHANGED <<priorVars, kwVars, postVars, lifeVars, mapVars, tabVars, cacheVars>>
    \/ BurnStart /\ UNCHANGED <<priorVars, kwVars, postVars, lifeVars, mapVars, tabVars, cacheVars>>
    \/ BurnStep /\ UNCHANGED <<priorVars, kwVars, postVars, lifeVars, mapVars, tabVars, cacheVars>>
    \/ ProductionStart /\ UNCHANGED <<priorVars, kwVars, postVars, lifeVars, mapVars, tabVars, cacheVars>>
    \/ ProductionStep /\ UNCHANGED <<priorVars, kwVars, postVars, lifeVars, mapVars, tabVars, cacheVars>>
    \/ LifeSummarise /\ UNCHANGED <<priorVars, kwVars, postVars, mapVars, tabVars, cacheVars>>
    \/ Return /\ UNCHANGED <<priorVars, kwVars, postVars, mapVars, tabVars, cacheVars>>
LifeStart == LifeInit /\ PriorIdle /\ KwIdle /\ PostIdle /\ MapIdle /\ TabIdle /\ CacheIdle
SpecLife == LifeStart /\ [][LifeNext]_vars

\* One pass of the GP variant over the walkers.
MapNext ==
    \/ MapReject /\ UNCHANGED <<priorVars, kwVars, postVars, dataVars, emVars, lifeVars, tabVars, cacheVars>>
    \/ MapSetParameter /\ UNCHANGED <<priorVars, kwVars, postVars, dataVars, emVars, lifeVars, tabVars, cacheVars>>
    \/ MapLogLikelihood /\ UNCHANGED <<priorVars, kwVars, postVars, dataVars, emVars, lifeVars, tabVars, cacheVars>>
MapStart == MapInit /\ PriorIdle /\ KwIdle /\ PostIdle /\ DataIdle /\ EmIdle /\ LifeIdle /\ TabIdle /\ CacheIdle
SpecMap == MapStart /\ [][MapNext]_vars

\* The light curve of a file, loaded, masked and clipped.
TabNext ==
    \/ TabGetLightcurve /\ UNCHANGED <<priorVars, kwVars, postVars, dataVars, emVars, lifeVars, mapVars, cacheVars>>
    \/ TabMaskData /\ UNCHANGED <<priorVars, kwVars, postVars, dataVars, emVars, lifeVars, mapVars, cacheVars>>
    \/ TabClipOutliers /\ UNCHANGED <<priorVars, kwVars, postVars, dataVars, emVars, lifeVars, mapVars, cacheVars>>
TabStart == TabInit /\ PriorIdle /\ KwIdle /\ PostIdle /\ DataIdle /\ EmIdle /\ LifeIdle /\ MapIdle /\ CacheIdle
SpecTab == TabStart /\ [][TabNext]_vars

\* Dataset objects constructed on one cache directory, and their light
\* curves.
CacheNext ==
    \/ NewArchive /\ UNCHANGED <<priorVars, kwVars, postVars, dataVars, emVars, lifeVars, mapVars, tabVars>>
    \/ Construct /\ UNCHANGED <<priorVars, kwVars, postVars, dataVars, emVars, lifeVars, mapVars, tabVars>>
    \/ CacheGetLightcurve /\ UNCHANGED <<priorVars, kwVars, postVars, dataVars, emVars, lifeVars, mapVars, tabVars>>
CacheStart == CacheInit /\ PriorIdle /\ KwIdle /\ PostIdle /\ DataIdle /\ EmIdle /\ LifeIdle /\ MapIdle /\ TabIdle
SpecCache == CacheStart /\ [][CacheNext]_vars

(***************************************************************************)
(* Properties                                                              *)
(***************************************************************************)
\* The conditions under which the prior is not -infinity, D's interval
\* closed (Closed) or open (Open).
PriorOkClosed(D, W, b) ==
    /\ D >= DLow /\ D <= DHigh
    /\ W >= WLow
    /\ b >= 0 /\ b <= bHigh
    /\ aROf(D, W, b) >= aRLow

PriorOkOpen(D, W, b) == D > DLow /\ D < DHigh /\ PriorOkClosed(D, W, b)

\* C1 as stated: _log_prior is finite exactly for D strictly inside
\* (2e-6, 0.2), W >= 1e-4, b in [0, 1] and aR >= 2, and -infinity for every
\* other input, D = 2e-6 and D = 0.2 included.
C1_OpenInterval ==
    pRes # "unset" =>
        IF PriorOkOpen(pD, pW, pb) THEN pRes = "finite" ELSE pRes = "neginf"

\* C1 amended: _log_prior is finite exactly for D in the closed interval
\* [2e-6, 0.2], W >= 1e-4, b in [0, 1] and aR >= 2, and -infinity for every
\* other (non-NaN) input; D = 2e-6 and D = 0.2 are accepted.
C1_ClosedInterval ==
    pRes # "unset" =>
        IF PriorOkClosed(pD, pW, pb) THEN pRes = "finite" ELSE pRes = "neginf"

\* _log_prior has returned a finite value for D exactly 0.2.
C1_Witness == pRes = "finite" /\ pD = DHigh

\* C8: a 2-tuple (a, b) with a < b gives a free parameter with value
\* (a+b)/2, min a and max b; a float v gives vary false and value v.
C8_TupleAndFloat ==
    kwRes.st # "pending" =>
        /\ (kwarg.type = "tuple" /\ Len(kwarg.elems) = 2
                /\ kwarg.elems[1] < kwarg.elems[2]) =>
              /\ kwRes.st = "returned"
              /\ kwRes.par.vary
              /\ 2 * kwRes.par.value = kwarg.elems[1] + kwarg.elems[2]
              /\ kwRes.par.min = kwarg.elems[1]
              /\ kwRes.par.max = kwarg.elems[2]
        /\ kwarg.type = "float" =>
              /\ kwRes.st = "returned"
              /\ ~kwRes.par.vary
              /\ kwRes.par.value = kwarg.n

\* A 2-tuple (a, b) with a < b and a midpoint that is neither end has been
\* converted.
C8_Witness ==
    /\ kwRes.st = "returned"
    /\ kwarg.type = "tuple" /\ Len(kwarg.elems) = 2
    /\ kwarg.elems[1] < kwarg.elems[2]
    /\ kwRes.par.value # kwarg.elems[1]

\* C9 as stated: any 3-tuple (lo, init, hi) gives value = its second
\* element, min = its first and max = its third.
C9_AnyTriple ==
    (kwRes.st # "pending" /\ kwarg.type = "tuple" /\ Len(kwarg.elems) = 3) =>
        /\ kwRes.st = "returned"
        /\ kwRes.par.vary
        /\ kwRes.par.value = kwarg.elems[2]
        /\ kwRes.par.min = kwarg.elems[1]
        /\ kwRes.par.max = kwarg.elems[3]

\* C9 amended: a 3-tuple (lo, init, hi) with lo <= init <= hi and lo < hi
\* gives a free parameter with value init, min lo and max hi; for a 3-tuple
\* in any other order the value is the median and the bounds are the
\* smallest and the largest of the three.
C9_OrderedTriple ==
    (kwRes.st # "pending" /\ kwarg.type = "tuple" /\ Len(kwarg.elems) = 3
        /\ MinOf(kwarg.elems) < MaxOf(kwarg.elems)) =>
        /\ kwRes.st = "returned"
        /\ kwRes.par.vary
        /\ \E i, j, l \in 1..3 :
              /\ {i, j, l} = 1..3
              /\ kwarg.elems[i] <= kwarg.elems[j]
              /\ kwarg.elems[j] <= kwarg.elems[l]
              /\ kwRes.par.min = kwarg.elems[i]
              /\ kwRes.par.value = kwarg.elems[j]
              /\ kwRes.par.max = kwarg.elems[l]
        /\ (kwarg.elems[1] <= kwarg.elems[2] /\ kwarg.elems[2] <= kwarg.elems[3]) =>
              /\ kwRes.par.min = kwarg.elems[1]
              /\ kwRes.par.value = kwarg.elems[2]
              /\ kwRes.par.max = kwarg.elems[3]

\* An ordered 3-tuple whose initial value is not its midpoint has been
\* converted.
C9_Witness ==
    /\ kwRes.st = "returned"
    /\ kwarg.type = "tuple" /\ Len(kwarg.elems) = 3
    /\ kwarg.elems[1] < kwarg.elems[2] /\ kwarg.elems[2] < kwarg.elems[3]
    /\ 2 * kwarg.elems[2] # kwarg.elems[1] + kwarg.elems[3]

\* The four forms the documentation names: a float or int that is no
\* bool, a 2-tuple, a 3-tuple, a value with uncertainty.
RecognisedForm(kw) ==
    \/ kw.type \in {"float", "int", "UFloat"}
    \/ kw.type = "tuple" /\ Len(kw.elems) \in {2, 3}

C2_OutOfBoundsRejected ==
    (postPert # Unset /\ postBase.ret = "finite") =>
        /\ postPert.ret = "neginf"
        /\ postPert.evals = 0

\* The GP variant gave a finite value, then refused the vector with one
\* component above its max.
C2_Witness ==
    /\ postBase.ret = "finite"
    /\ postGp # NoGP
    /\ postAt.side = "above"
    /\ postPert.ret = "neginf"

\* The parameters of P that carry a Gaussian prior, by their place in P.
PriorIndexes(P) == {j \in 1..Len(P.keys) : P.par[j].user_data.isU}

\* C7: after lmfit_transit or lmfit_eclipse the minimised residual vector
\* is the N data residuals followed by one prior term for every parameter
\* that carries a Gaussian prior (free, fixed or derived), in the order of
\* the parameter set; result.residual is the N data residuals, and with at
\* least one prior result.prior_residual holds the prior terms and
\* result.npriors their number.
C7_ResidualVector ==
    dataset.lastfit = "lmfit" =>
        LET res == dataset.lmfit
            P == res.params
            N == dataset.lc.n
            r == res.fvec
            K == Cardinality(PriorIndexes(P))
        IN /\ Len(r) = N + K
           /\ \A i \in 1..N : r[i] = DataTerm(i)
           /\ \A j \in 1..K :
                 /\ r[N + j].kind = "prior"
                 /\ Has(P, r[N + j].name)
                 /\ IndexOf(P, r[N + j].name) \in PriorIndexes(P)
                 /\ r[N + j].n = Get(P, r[N + j].name).user_data.n
                 /\ r[N + j].s = Get(P, r[N + j].name).user_data.s
                 /\ r[N + j].value = Get(P, r[N + j].name).value
           /\ \A j, k \in 1..K :
                 j < k => IndexOf(P, r[N + j].name) < IndexOf(P, r[N + k].name)
           /\ res.residual = SubSeq(r, 1, N)
           /\ Len(res.residual) = N
           /\ K > 0 => /\ res.hasPriors
                       /\ res.prior_residual = SubSeq(r, N + 1, N + K)
                       /\ res.npriors = K

\* A transit fit with priors on a free (D), a fixed (f_c) and a derived
\* (logrho) parameter.
C7_Witness ==
    /\ dataset.lastfit = "lmfit"
    /\ dataset.model = "TransitModel"
    /\ dataset.lmfit.npriors >= 3
    /\ \E j \in 1..Len(dataset.lmfit.prior_residual) :
          dataset.lmfit.prior_residual[j].name = "logrho"
    /\ \E j \in 1..Len(dataset.lmfit.prior_residual) :
          dataset.lmfit.prior_residual[j].name = "f_c"
    /\ \E j \in 1..Len(dataset.lmfit.prior_residual) :
          /\ dataset.lmfit.prior_residual[j].name = "D"
          /\ dataset.lmfit.prior_residual[j].value # dataset.lmfit.prior_residual[j].n

\* C3: when the loop that places the walkers has finished, every position
\* handed to the ensemble sampler has a finite log-posterior.
C3_InitialPositionsFinite ==
    (emPc = "burn" /\ emSampler.coords = << >>) =>
        \A k \in 1..Len(emPos) : IsFinite(emPos[k].lp)

\* C4: a walker whose draws keep being rejected is given up with an error
\* after a bounded number of them, instead of another draw: once DrawCap
\* draws of one walker were rejected the call has stopped with an
\* exception.
C4_RejectedDrawsBounded == emDraws >= DrawCap => raised # ""

\* C5 as claimed: the chain has nwalkers * (steps // thin) rows.
C5_ThinnedRows ==
    dataset.emcee.set =>
        Len(dataset.emcee.chain) = emArgs.nwalkers * (emArgs.steps \div emArgs.thin)

\* C5, amended: when emcee_sampler has returned, the chain has nwalkers *
\* steps rows whatever thin is, every row has one column per free parameter,
\* and column i belongs to var_names[i]: its values lie within the bounds of
\* that parameter, and the best-fit value of that parameter is column i of
\* one row.
C5_ChainShape ==
    dataset.emcee.set =>
        LET res == dataset.emcee
        IN /\ Len(res.chain) = emArgs.nwalkers * emArgs.steps
           /\ Len(res.lnprob) = Len(res.chain)
           /\ res.var_names = emWork.vn
           /\ \A r \in 1..Len(res.chain) :
                 /\ Len(res.chain[r].x) = Len(res.var_names)
                 /\ \A i \in 1..Len(res.var_names) :
                       /\ res.chain[r].x[i] >= Get(emWork.params, res.var_names[i]).min
                       /\ res.chain[r].x[i] <= Get(emWork.params, res.var_names[i]).max
           /\ \E r \in 1..Len(res.chain) :
                 \A i \in 1..Len(res.var_names) :
                    Get(res.params_best, res.var_names[i]).value = res.chain[r].x[i]

\* A call with steps=2 and thin=2 has returned.
C5_Witness ==
    /\ dataset.emcee.set
    /\ emArgs.thin = 2 /\ emArgs.steps = 2
    /\ Len(dataset.emcee.chain) = 2 * emArgs.nwalkers

\* The steps from one place of the call to the next.
PhaseSteps ==
    {<<"idle", "init">>, <<"init", "burn">>, <<"burn", "production">>,
     <<"production", "summary">>, <<"summary", "done">>}
        \cup {<<pc, "raised">> : pc \in {"idle", "init", "burn", "production"}}

\* C6: the call goes from placing the walkers to burn-in, production and
\* summary in that order; production begins only after all burn iterations
\* of the burn-in, on the positions the burn-in ended on; no sample of the
\* burn-in is in the chain or the log-probability trace.
C6_PhaseOrder ==
    /\ [][emPc' # emPc => <<emPc, emPc'>> \in PhaseSteps]_vars
    /\ [](emPc \in {"production", "summary", "done"} =>
             /\ emSampler.burnt = emArgs.burn
             /\ emSampler.burnEnd # << >>
             /\ emPos = emSampler.burnEnd)
    /\ [](emSampler.prodStart # << >> =>
             /\ emPc \in {"production", "summary", "done", "raised"}
             /\ emSampler.prodStart = emSampler.burnEnd)
    /\ [](\A r \in 1..Len(emSampler.chain) :
             /\ emSampler.chain[r].phase = "production"
             /\ emPc \in {"production", "summary", "done", "raised"})
    /\ [](dataset.emcee.set =>
             /\ emPc = "done"
             /\ dataset.emcee.chain = emSampler.chain
             /\ \A r \in 1..Len(dataset.emcee.chain) :
                   dataset.emcee.chain[r].phase = "production")

\* A call with burn=2 has returned, and a walker left its first position
\* during the burn-in.
C6_Witness ==
    /\ emPc = "done"
    /\ emArgs.burn = 2
    /\ Len(dataset.emcee.chain) > 0
    /\ \E k \in 1..Len(emSampler.burnEnd) :
          \A z \in -MaxZ..MaxZ :
             emSampler.burnEnd[k].x[1] #
                 emWork.vv[1] + Round(emWork.vs[1] * z * emArgs.init_scale, 1000)

\* The operations that fit.
FitCalls == {"lmfit_transit", "lmfit_eclipse", "emcee_sampler"}

\* C11: lmfit_transit, lmfit_eclipse or emcee_sampler called on a Dataset
\* object for which get_lightcurve has not loaded a light curve raises the
\* missing-light-curve error at once (no walker is drawn) and leaves the
\* object as it was: no model, no least-squares result, no sampler result
\* and no last-fit flag.
C11_NoLightCurve ==
    (called \in FitCalls /\ ~before.hasLc) =>
        /\ raised = "AttributeError: Use get_lightcurve() to load data first."
        /\ dataset = before
        /\ dataset.model = "None" /\ ~dataset.lmfit.set /\ ~dataset.emcee.set
        /\ ~dataset.hasSampler /\ dataset.lastfit = "None"
        /\ emPc \in {"raised", "idle"} /\ emPos = << >> /\ emSampler = NoSampler

\* emcee_sampler was called before get_lightcurve and raised.
C11_Witness ==
    /\ called = "emcee_sampler" /\ ~before.hasLc
    /\ emPc = "raised"
    /\ raised = "AttributeError: Use get_lightcurve() to load data first."

\* C12: emcee_sampler called on an object with a light curve on which no
\* least-squares fit has completed raises the missing-model error before a
\* walker is drawn and before the sampler is made, and leaves the object
\* without a sampler result and with its last-fit flag as it was.
C12_NoModel ==
    (called = "emcee_sampler" /\ before.hasLc /\ before.model = "None") =>
        /\ raised = "AttributeError: Use lmfit_transit() or lmfit_eclipse() first."
        /\ emPc \in {"raised", "idle"}
        /\ emPos = << >> /\ emDraws = 0 /\ emSampler = NoSampler
        /\ ~dataset.emcee.set /\ ~dataset.hasSampler
        /\ dataset.lastfit = before.lastfit
        /\ dataset = before

\* emcee_sampler was called after get_lightcurve and add_glint, before any
\* fit, and raised.
C12_Witness ==
    /\ called = "emcee_sampler" /\ before.hasLc /\ before.glint
    /\ before.model = "None"
    /\ emPc = "raised"

C17_LastFit ==
    /\ dataset.lastfit = done.kind
    /\ dataset.lmfit = done.lmfit
    /\ dataset.emcee = done.emcee
    /\ dataset.lastfit = "lmfit" => dataset.lmfit.set
    /\ dataset.lastfit = "emcee" => dataset.emcee.set /\ dataset.lmfit.set

\* An eclipse fit completed after a chain on a transit fit.
C17_Witness ==
    /\ called = "lmfit_eclipse" /\ raised = ""
    /\ before.lastfit = "emcee" /\ before.model = "TransitModel"
    /\ dataset.lastfit = "lmfit" /\ dataset.model = "EclipseModel"
    /\ dataset.emcee.set

\* The free parameter of the call in progress that vn[i] names.
FreePar(i) == Get(emWork.params, emWork.vn[i])

\* C14 as claimed: the uncertainty that scatters the walkers in a free
\* parameter is its stderr when that is present and finite, otherwise the
\* sigma of its prior when it has one, otherwise 10% of max - min.
C14_PriorBeforeRange ==
    \A i \in 1..Len(emWork.vn) :
       emWork.vs[i] =
          IF FreePar(i).stderr.kind = "finite" THEN FreePar(i).stderr.v
          ELSE IF FreePar(i).user_data.isU THEN FreePar(i).user_data.s
          ELSE TenthOfRange(FreePar(i))

\* C14, amended: the uncertainty is the stderr when that is present and
\* finite; the sigma of the prior when there is no stderr and there is a
\* prior; 10% of max - min otherwise, so also for a stderr that is not
\* finite on a parameter with a prior.
C14_ScatterRule ==
    /\ Len(emWork.vs) = Len(emWork.vn) /\ Len(emWork.vv) = Len(emWork.vn)
    /\ \A i \in 1..Len(emWork.vn) :
          /\ FreePar(i).vary
          /\ emWork.vv[i] = FreePar(i).value
          /\ emWork.vs[i] =
                IF FreePar(i).stderr.kind = "finite" THEN FreePar(i).stderr.v
                ELSE IF FreePar(i).stderr.kind = "None" /\ FreePar(i).user_data.isU
                THEN FreePar(i).user_data.s
                ELSE TenthOfRange(FreePar(i))

\* The call with ScatterParams has built vs: D, with a prior of sigma 1000
\* and a stderr that is not finite, has 10% of its range.
C14_Witness ==
    /\ emPc = "init"
    /\ emArgs.kw.params = ScatterParams
    /\ \E i \in 1..Len(emWork.vn) :
          /\ emWork.vn[i] = "D"
          /\ FreePar(i).user_data.s = 1000
          /\ FreePar(i).stderr.kind = "inf"
          /\ emWork.vs[i] = 50000
    /\ \E i \in 1..Len(emWork.vn) :
          emWork.vn[i] = "W" /\ emWork.vs[i] = 100
    /\ \E i \in 1..Len(emWork.vn) :
          emWork.vn[i] = "T_0" /\ emWork.vs[i] = 5

\* C15: with no free parameter the call of emcee_sampler ends with an
\* exception before the walker loop: it is never in the loop, in a run of
\* the sampler or returned with an empty vn.
C15_NoFreeParameterFails ==
    (emPc \notin {"idle", "raised"}) => Len(emWork.vn) > 0

\* The names of vn.
Named(vn) == {vn[i] : i \in 1..Len(vn)}

\* The parameters of P that parcopy holds with another value, bounds, vary
\* flag, expression or prior.
Assigned(P, parcopy) == {P.keys[j] : j \in {n \in 1..Len(P.keys) : parcopy.par[n] # P.par[n]}}

\* C18: vn of emcee_sampler names no parameter defined by an expression,
\* and the loop over vn of a posterior evaluation (on the positions of the
\* walkers drawn so far and of the sampler) assigns a value of the vector
\* to parameters named in vn only, none of them defined by an expression.
C18_OnlyFreeAssigned ==
    /\ \A n \in Named(emWork.vn) : Get(emWork.params, n).expr = ""
    /\ \A j \in 1..Len(emWork.params.keys) :
          emWork.params.par[j].expr # "" => emWork.params.keys[j] \notin Named(emWork.vn)
    /\ \A k \in 1..Len(emPos) :
          /\ Assigned(emWork.params, Proposal(emWork.params, emWork.vn, emPos[k].x).P)
                \subseteq Named(emWork.vn)
          /\ \A i \in 1..Len(emWork.vn) :
                Get(Proposal(emWork.params, emWork.vn, emPos[k].x).P,
                    emWork.vn[i]).value = emPos[k].x[i]
    /\ \A k \in 1..Len(emSampler.coords) :
          Assigned(emWork.params,
                   Proposal(emWork.params, emWork.vn, emSampler.coords[k].x).P)
             \subseteq Named(emWork.vn)

\* A walker was drawn away from the values of the fit while the working
\* parameters hold the derived k, aR and sigma_w, none of them in vn.
C18_Witness ==
    /\ emPos # << >>
    /\ {"k", "aR", "sigma_w"} \subseteq Named(emWork.params.keys)
    /\ \E k \in 1..Len(emPos) :
          Assigned(emWork.params, Proposal(emWork.params, emWork.vn, emPos[k].x).P)
             \notin {{}, Named(emWork.params.keys)}

\* parcopy of the evaluation of postPos, after the loop over vn and with
\* the expressions evaluated.
PostParcopy == Refresh(Proposal(postParams, VarNames(postParams), postPos).P)

\* The derived parameters of P whose expression has a value outside their
\* [min, max] (the value of the parameter itself is held within them).
OutOfBounds(P) ==
    {P.keys[j] : j \in {n \in 1..Len(P.keys) :
        /\ P.par[n].expr # ""
        /\ ~ExprValue(P, P.par[n].expr).nan
        /\ \/ ExprValue(P, P.par[n].expr).v < P.par[n].min
           \/ ExprValue(P, P.par[n].expr).v > P.par[n].max}}

\* The parameters of P whose value is NaN.
NaNs(P) == {P.keys[j] : j \in {n \in 1..Len(P.keys) : P.par[n].nan}}

\* C16: in both posterior functions, when a proposal within the bounds
\* leaves a derived parameter outside its [min, max] or NaN, or the model
\* is not finite somewhere, the value returned is -infinity.
C16_DerivedRejected ==
    (/\ postBase # Unset /\ postAt.side # "fit"
     /\ Proposal(postParams, VarNames(postParams), postPos).ok
     /\ \/ OutOfBounds(PostParcopy) # {}
        \/ NaNs(PostParcopy) # {}
        \/ postBase.fit = "nan")
    => postBase.ret = "neginf"

\* What the code does keep of it: a NaN parameter or a model that is not
\* finite gives -infinity.
NaNRejected ==
    (/\ postBase # Unset /\ postAt.side # "fit"
     /\ Proposal(postParams, VarNames(postParams), postPos).ok
     /\ \/ NaNs(PostParcopy) # {}
        \/ postBase.fit = "nan")
    => postBase.ret = "neginf"

\* q_2 = 0/0 was refused although the model and _log_prior were finite.
NaNRejectedWitness ==
    /\ postBase.ret = "neginf" /\ postBase.fit = "finite"
    /\ Proposal(postParams, VarNames(postParams), postPos).ok
    /\ NaNs(PostParcopy) = {"q_2"}
    /\ IsFinite(_log_prior(Get(PostParcopy, "D").value, Get(PostParcopy, "W").value,
                           Get(PostParcopy, "b").value))

\* C19: every likelihood of the GP variant is computed with the kernel
\* parameters of the proposal of its own evaluation, and at most one
\* evaluation at a time is between its first set_parameter and its
\* log_likelihood.
C19_OwnKernel ==
    /\ \A w \in 1..Len(mapPc) :
          (mapPc[w] = Finished /\ mapUsed[w] # NoKernel) => mapUsed[w] = mapPos[w]
    /\ \A w, v \in 1..Len(mapPc) :
          (mapPc[w] \in 1..Len(KernelNames) /\ mapPc[v] \in 1..Len(KernelNames))
             => w = v

\* Two walkers with different kernel parameters were evaluated on the one
\* GP object, each with its own.
C19_Witness ==
    /\ Len(mapPc) >= 2
    /\ \A w \in 1..Len(mapPc) : mapPc[w] = Finished /\ mapUsed[w] = mapPos[w]
    /\ mapPos[1].log_S0 # mapPos[2].log_S0
    /\ mapPos[1].log_sigma # mapPos[2].log_sigma

\* The arrays of self.lc are equally long.
SameLength == \A k \in ArrayKeys : Len(tabLc.arr[k]) = Len(tabLc.arr.time)

\* Entry i of every array comes from the row entry i of time comes from.
SameRows ==
    \A k \in ArrayKeys : \A i \in 1..Len(tabLc.arr[k]) :
       i <= Len(tabLc.arr.time) /\ tabLc.arr[k][i] = tabLc.arr.time[i]

\* C20: after get_lightcurve, with reject_highpoints false or true, and any
\* mask_data and clip_outliers calls after it, the arrays of self.lc are
\* equally long and their i-th entries come from the same row of the table.
C20_ArraysAligned == tabLc.loaded => (SameLength /\ SameRows)

\* What holds of it: the arrays are always equally long, and without
\* reject_highpoints they are aligned.
AlignedWithoutReject ==
    tabLc.loaded => (SameLength /\ (~tabLc.reject_highpoints => SameRows))

\* Without reject_highpoints: a row with another EVENT was left out, and a
\* point was masked after that.
AlignedWithoutRejectWitness ==
    /\ tabLc.loaded /\ ~tabLc.reject_highpoints
    /\ Len(tabLc.arr.time) = 1
    /\ tabLc.arr.centroid_x = <<3>>
    /\ srcTable[1].EVENT = 1 /\ srcTable[2].EVENT = 100

\* C21: after one or more mask_data calls self.lc_unmask holds the light
\* curve as it was before any of them.
C21_UnmaskIsOriginal == tabLc.masked >= 1 => tabLc.lc_unmask = tabLc.original

\* What holds of it: after the first mask_data call lc_unmask is the light
\* curve before it, and after every call each array of self.lc is a
\* subsequence of its array in lc_unmask, the same places for every key.
UnmaskAfterFirst ==
    /\ tabLc.masked = 1 => tabLc.lc_unmask = tabLc.original
    /\ (tabLc.masked >= 1 /\ tabLc.arr # tabLc.lc_unmask) =>
          Len(tabLc.arr.time) < Len(tabLc.lc_unmask.time)

\* The three kernel parameters are all in P.
HasKernel(P) == Has(P, "log_S0") /\ Has(P, "log_omega0") /\ Has(P, "log_Q")

\* C22: emcee_sampler works with the GP variant exactly when the working
\* parameters hold log_S0, log_omega0 and log_Q, which they do whenever
\* add_shoterm is true; otherwise it works with the other variant and
\* stores gp = None; the variant called for bestfit is the one given to the
\* walker loop and the sampler.
C22_VariantChoice ==
    /\ (emPc \notin {"idle", "raised"}) =>
          /\ emWork.log_posterior_func =
                (IF HasKernel(emWork.params) THEN "_log_posterior_SHOTerm"
                 ELSE "_log_posterior_jitter")
          /\ emArgs.kw.add_shoterm => HasKernel(emWork.params)
          /\ (emWork.gp = NoGP) <=> ~HasKernel(emWork.params)
    /\ dataset.emcee.set =>
          /\ dataset.emcee.used.sampler = emWork.log_posterior_func
          /\ dataset.emcee.used.bestfit = emWork.log_posterior_func
          /\ (dataset.gp = NoGP) <=> ~HasKernel(emWork.params)

\* A call without add_shoterm on parameters that hold the kernel parameters
\* has returned: it worked with the GP variant throughout.
C22_Witness ==
    /\ dataset.emcee.set
    /\ ~emArgs.kw.add_shoterm
    /\ dataset.emcee.used.bestfit = "_log_posterior_SHOTerm"
    /\ dataset.gp # NoGP

\* C23: with return_fit true both posterior functions return the
\* prediction of the model for a vector within the bounds, finite or not
\* and whatever _log_prior is there, after one evaluation of the model and
\* with the kernel parameters of the GP object as they were.
C23_ReturnFit ==
    postAt.side = "fit" =>
       /\ Proposal(postParams, VarNames(postParams), postPos).ok
       /\ postBase.ret = "fit"
       /\ postBase.fit \in FitClasses
       /\ postBase.evals = 1
       /\ postGp = ChooseGP(postParams)

\* The prediction that is not finite was returned, at a vector where
\* _log_prior is -infinity, by the GP variant.
C23_Witness ==
    /\ postAt.side = "fit"
    /\ postBase.ret = "fit" /\ postBase.fit = "nan"
    /\ postGp # NoGP
    /\ _log_prior(Get(PostParcopy, "D").value, Get(PostParcopy, "W").value,
                  Get(PostParcopy, "b").value) = "neginf"

\* The bestfit emcee_sampler stores is a prediction of the model.
BestfitIsPrediction == dataset.emcee.set => dataset.emcee.bestfit \in FitClasses

\* The places [step, walker] of the largest value of the log-probability.
LargestAt(sampler, sign) ==
    LET a == get_log_prob(sampler, sign)
    IN {sw \in (1..StoredSteps(sampler)) \X (1..sampler.nwalkers) :
           \A s \in 1..StoredSteps(sampler), w \in 1..sampler.nwalkers :
              a[s][w] <= a[sw[1]][sw[2]]}

\* C24: the row of the flattened chain that line 1281 picks is the sample
\* stored at a place [step, walker] where the log-probability is largest,
\* and params_best holds that sample; the flattened chain has steps *
\* nwalkers rows, whatever thin is.
C24_BestRow ==
    dataset.emcee.set =>
       LET b == dataset.emcee.argmax
           flat == FlatChain(emSampler)
       IN /\ Len(flat) = emArgs.steps * emArgs.nwalkers
          /\ \E sw \in LargestAt(emSampler, dataset.emcee.lnsign) :
                /\ flat[b] = get_chain(emSampler)[sw[1]][sw[2]]
                /\ b = (sw[1] - 1) * emArgs.nwalkers + sw[2]
                /\ dataset.emcee.chain[b].step = sw[1]
                /\ dataset.emcee.chain[b].walker = sw[2]
          /\ \A r \in 1..Len(flat) : dataset.emcee.chain[r].x = flat[r]
          /\ \A i \in 1..Len(emWork.vn) :
                Get(dataset.emcee.params_best, emWork.vn[i]).value = flat[b][i]

\* Two steps of two walkers, a step stored every second iteration, were
\* sampled, and the row picked is neither the first nor the last.
C24_Witness ==
    /\ dataset.emcee.set
    /\ emArgs.steps = 2 /\ emArgs.nwalkers = 2 /\ emArgs.thin = 2
    /\ dataset.emcee.argmax \in {2, 3}
    /\ FlatChain(emSampler)[2] # FlatChain(emSampler)[3]

\* C25: an evaluation of either posterior function, with return_fit or
\* without, on a vector within the bounds or not, leaves the parameter set
\* it was given as it was: the values, the bounds and the priors.
C25_ParamsUntouched == [][postParams' = postParams]_vars

\* Both evaluations were made, the first on a vector within the bounds whose
\* values are not those of the parameter set, so that the copy differs from
\* it, the second on a vector whose second component is outside the bounds.
C25_Witness ==
    /\ postBase # Unset /\ postPert # Unset
    /\ postAt.i >= 2
    /\ Proposal(postParams, VarNames(postParams), postPos).ok
    /\ Proposal(postParams, VarNames(postParams), postPos).P # postParams

\* The parameter set emcee_sampler starts from (lines 1170-1171).
GivenParams ==
    IF emArgs.kw.params = EmptyParams THEN dataset.lmfit.params ELSE emArgs.kw.params

\* C29: in the working parameters of emcee_sampler, log_sigma and, with
\* add_shoterm, log_S0, log_omega0 and log_Q are the parameters of the set
\* it started from when that set holds them, whatever the keyword of the
\* name is; the keyword, or the default when it is None, makes the parameter
\* only when the set does not hold it.
C29_ParamBeforeKeyword ==
    (emPc \notin {"idle", "raised", "done"}) =>
       \A i \in 1..Len(SamplerKeywords) :
          LET e == SamplerKeywords[i]
          IN (~e.gp \/ emArgs.kw.add_shoterm) =>
                Get(emWork.params, e.name) =
                   (IF Has(GivenParams, e.name) THEN Get(GivenParams, e.name)
                    ELSE Get(FromKeyword(Building(GivenParams), e.name,
                                         emArgs.kw[e.name], TRUE, e.default).P,
                             e.name))

\* A call with add_shoterm and the four keywords given, on a set that holds
\* the four parameters with other values, has gone past line 1205.
C29_Witness ==
    /\ emPc \notin {"idle", "raised", "done"}
    /\ emArgs.kw.add_shoterm
    /\ \A i \in 1..Len(SamplerKeywords) :
          LET e == SamplerKeywords[i]
          IN /\ Has(GivenParams, e.name)
             /\ emArgs.kw[e.name] # None
             /\ Get(GivenParams, e.name).value # emArgs.kw[e.name].n

\* C28: no step of emcee_sampler changes the stored least-squares result,
\* whatever params is.
C28_LsqUnchanged == [][dataset'.lmfit = dataset.lmfit]_vars

\* What holds of it: the steps of a call that was not given the parameter
\* set of the least-squares result itself leave that result as it was.
LsqUnchangedByCopy == [][~emArgs'.kw.own => dataset'.lmfit = dataset.lmfit]_vars

\* C26: while the Dataset object holds a sampler result, self.model is the
\* model that result was made with.
C26_ModelOfSampler ==
    dataset.emcee.set => dataset.model = dataset.emcee.used.model

\* What holds of it: self.model is the model of the sampler result while
\* __lastfit__ names the sampler.
ModelOfLastSampler ==
    (dataset.emcee.set /\ dataset.lastfit = "emcee") =>
       dataset.model = dataset.emcee.used.model

\* len(bestfit) of the fit __lastfit__ names: bestfit is model.eval on the
\* time array of the call (lines 831 and 1284-1292), as long as the
\* residual of line 838 and as result.ndata of line 1313.
LastBestfitLen(self) ==
    IF self.lastfit = "emcee" THEN self.emcee.ndata ELSE Len(self.lmfit.residual)

\* C27: between calls, once a fit is done, bestfit of the fit __lastfit__
\* names has as many points as self.lc.
C27_BestfitLength ==
    (emPc = "idle" /\ dataset.lastfit # "None") =>
       LastBestfitLen(dataset) = dataset.lc.n

\* What holds of it: when a fit returns, its bestfit has as many points as
\* self.lc.
BestfitLengthAtFit ==
    /\ (called \in {"lmfit_transit", "lmfit_eclipse"} /\ raised = "")
          => LastBestfitLen(dataset) = dataset.lc.n
    /\ emPc = "done" => LastBestfitLen(dataset) = dataset.lc.n

\* C30: an object constructed with force_download=True has its file list,
\* its header and its light curve from the archive it downloaded; one
\* constructed without it on a cached archive has downloaded nothing.
C30_ForcedIsFresh ==
    /\ (cacheSelf.made /\ cacheSelf.force_download) =>
          /\ cacheSelf.downloaded
          /\ cacheSelf.list = cacheSelf.fresh
          /\ cacheSelf.hdr = cacheSelf.fresh
          /\ cacheSelf.lc \in {0, cacheSelf.fresh}
    /\ (cacheSelf.made /\ ~cacheSelf.force_download /\ cacheSelf.found) =>
          ~cacheSelf.downloaded

\* What holds of it: with force_download=True the archive is downloaded and
\* the file list is made from it, and without it a cached archive is not
\* downloaded again.
ForcedListIsFresh ==
    /\ (cacheSelf.made /\ cacheSelf.force_download) =>
          /\ cacheSelf.downloaded
          /\ cacheSelf.list = cacheSelf.fresh
          /\ cacheDisk.tgz = cacheSelf.fresh
    /\ (cacheSelf.made /\ ~cacheSelf.force_download /\ cacheSelf.found) =>
          ~cacheSelf.downloaded

====
